---------------------------- MODULE Spec2Model ----------------------------
(***************************************************************************)
(* State-machine model of the botster actuator: the Connection Manager     *)
(* (src/src/actuator.js), the Backoff Scheduler (ReconnectManager,         *)
(* src/unnamed/part_003), the Execution Engine (executeShell,              *)
(* src/unnamed/part_002) and the Process Registry (src/unnamed/part_003).  *)
(*                                                                         *)
(* One action is one run-to-completion callback of the Node event loop:    *)
(* a socket event handler, a timer callback, a child-process event         *)
(* handler, or a call of the public start()/stop().  The continuation of   *)
(* an `await` is an action of its own.                                     *)
(***************************************************************************)
EXTENDS Integers, Sequences, FiniteSets, TLC

(***************************************************************************)
(* Bounds of the model.                                                    *)
(***************************************************************************)
MaxCmds == 1
MaxPair == 2
MaxCmdId == 2
MaxSock == 6
AttemptCap == 6
MaxStarts == 2
BackoffCap == 8
MaxLeaked == 2
MaxCeiling == 4
MaxChunks == 3
MaxSlug == 4
MaxSessions == 3
MaxKills == 2
MaxWrites == 2
MaxBad == 2
MaxPings == 2
MaxUnknown == 2
MaxBrain == 2
MaxFileCmds == 2
MaxKeyed == 2
MaxSendSock == 2

(***************************************************************************)
(* Program constants.                                                      *)
(***************************************************************************)
BaseMs == 1000
MaxMs == 30000
JitterMs == 1000
NormalClosure == 1000
NoCeiling == -1
MaxOutputChars == 200000
TailChars == 4000

CmdIds == 1..MaxCmdId
Jitter == {0, JitterMs - 1}
Caps == {"exec", "process", "read", "write", "edit", "actuator/shell", "shell", "bogus"}

VARIABLES
    started,         \* number of start() calls made
    destroyed,       \* Actuator.#destroyed
    urlValid,        \* configuration: whether new WebSocket(wsUrl) succeeds
    ws,              \* Actuator.#ws: 0 is null, else an index into sockets
    sockets,         \* every WebSocket created so far
    attempt,         \* ReconnectManager.#attempt
    maxAttempts,     \* ReconnectManager.#maxAttempts (NoCeiling is Infinity)
    lastSchedule,    \* what the last schedule() call since the last reset() returned: "accepted" (true), "refused" (false), "none"
    reconnectTimer,  \* ReconnectManager.#timer: the state of the timer the handle names and, while it is pending, its delay
    leakedTimers,    \* pending reconnect timers whose handle was overwritten
    activeCommands,  \* Actuator.#activeCommands: command id -> index of the command whose kill closure is stored (0: no entry)
    cmds,            \* every command_delivery handled so far, with the closure state of its executeShell call
    sessions,        \* ProcessRegistry.#sessions, in insertion order
    brainMode,       \* configuration: config.brainMode
    files            \* the file system the FileExecutor works on: path -> entry

vars == <<started, destroyed, urlValid, ws, sockets, attempt, maxAttempts, lastSchedule,
          reconnectTimer, leakedTimers, activeCommands, cmds, sessions, brainMode, files>>

connVars == <<started, destroyed, urlValid, ws, sockets>>
backoffVars == <<attempt, maxAttempts, lastSchedule, reconnectTimer, leakedTimers>>
execVars == <<activeCommands, cmds, sessions>>
hostVars == <<brainMode, files>>

Min(a, b) == IF a <= b THEN a ELSE b

RECURSIVE Pow2(_)
Pow2(n) == IF n = 0 THEN 1 ELSE 2 * Pow2(n - 1)

(***************************************************************************)
(* Event loop                                                              *)
(***************************************************************************)

\* No promise continuation and no process.nextTick callback is queued: the
\* event loop is free to run the next timer, I/O event or signal handler.
Quiet == \A i \in 1..Len(cmds) : cmds[i].pc # "returned" /\ cmds[i].child # "failA"

(***************************************************************************)
(* ReconnectManager                                                        *)
(***************************************************************************)

\* The null timer handle, and the handle of a timer that has fired.
NoTimer == [state |-> "null", delay |-> 0]
FiredTimer == [state |-> "fired", delay |-> 0]

\* A delay without the cap at maxMs.
DelayUncapped(att, j) == BaseMs * Pow2(att) + j

\* The delay schedule() computes for the attempt counter att and the jitter j.
Delay(att, j) == Min(BaseMs * Pow2(att) + j, MaxMs)

\* A ceiling test that lets one call too many through.
ScheduleAcceptedOffByOne == maxAttempts = NoCeiling \/ attempt <= maxAttempts

\* schedule() is accepted unless the attempt ceiling is reached.
ScheduleAccepted == maxAttempts = NoCeiling \/ attempt < maxAttempts

\* schedule(fn) with jitter j, called when the handle's timer is in state cur
\* and leaked timers are pending: the new values of the backoff state.  The
\* handle is overwritten without clearTimeout, so a pending timer it named
\* stays pending.
Schedule(j, cur, leaked) ==
    IF ScheduleAccepted
    THEN /\ attempt' = attempt + 1
         /\ leakedTimers' = leaked + (IF cur.state = "pending" THEN 1 ELSE 0)
         /\ reconnectTimer' = [state |-> "pending", delay |-> Delay(attempt, j)]
         /\ lastSchedule' = "accepted"
         /\ UNCHANGED maxAttempts
    ELSE /\ reconnectTimer' = cur
         /\ leakedTimers' = leaked
         /\ lastSchedule' = "refused"
         /\ UNCHANGED <<attempt, maxAttempts>>

\* A reset() that clears the timer and keeps the counter.
ResetTimerOnly ==
    /\ reconnectTimer' = NoTimer
    /\ lastSchedule' = "none"
    /\ UNCHANGED <<attempt, maxAttempts, leakedTimers>>

\* reset(): the counter goes to zero and the timer the handle names is cleared.
Reset ==
    /\ attempt' = 0
    /\ reconnectTimer' = NoTimer
    /\ lastSchedule' = "none"
    /\ UNCHANGED <<maxAttempts, leakedTimers>>

\* destroy() is reset().
Destroy == Reset

(***************************************************************************)
(* Actuator: connection                                                    *)
(***************************************************************************)

\* A new WebSocket.  pings: the ts of every ping received on it; pongs: the ts
\* of every pong sent on it.
NewSocket == [state |-> "CONNECTING", closeCode |-> 0, pings |-> <<>>, pongs |-> <<>>]

\* A #scheduleReconnect() without the destroyed test.
ScheduleReconnectAlways(j, cur, leaked) == Schedule(j, cur, leaked)

\* #scheduleReconnect(): nothing once destroyed, else schedule(() => #connect()).
ScheduleReconnect(j, cur, leaked) ==
    IF destroyed
    THEN /\ reconnectTimer' = cur
         /\ leakedTimers' = leaked
         /\ UNCHANGED <<attempt, maxAttempts, lastSchedule>>
    ELSE Schedule(j, cur, leaked)

\* A #connect() that gives up when the WebSocket constructor throws.
ConnectGivesUp(j, cur, leaked) ==
    IF destroyed \/ ~urlValid
    THEN /\ UNCHANGED <<ws, sockets, attempt, maxAttempts, lastSchedule>>
         /\ reconnectTimer' = cur
         /\ leakedTimers' = leaked
    ELSE /\ sockets' = Append(sockets, NewSocket)
         /\ ws' = Len(sockets) + 1
         /\ reconnectTimer' = cur
         /\ leakedTimers' = leaked
         /\ UNCHANGED <<attempt, maxAttempts, lastSchedule>>

\* #connect(): nothing once destroyed; a new socket, or a reconnect when the
\* WebSocket constructor throws.
Connect(j, cur, leaked) ==
    IF destroyed
    THEN /\ UNCHANGED <<ws, sockets, attempt, maxAttempts, lastSchedule>>
         /\ reconnectTimer' = cur
         /\ leakedTimers' = leaked
    ELSE IF urlValid
         THEN /\ sockets' = Append(sockets, NewSocket)
              /\ ws' = Len(sockets) + 1
              /\ reconnectTimer' = cur
              /\ leakedTimers' = leaked
              /\ UNCHANGED <<attempt, maxAttempts, lastSchedule>>
         ELSE /\ UNCHANGED <<ws, sockets>>
              /\ ScheduleReconnect(j, cur, leaked)

\* start(): the entry point calls it once; a call after stop() is allowed too.
Start ==
    /\ started < MaxStarts
    /\ Quiet
    /\ started = 0 \/ destroyed
    /\ Len(sockets) < MaxSock
    /\ attempt < AttemptCap
    /\ started' = started + 1
    /\ \E j \in Jitter : Connect(j, reconnectTimer, leakedTimers)
    /\ UNCHANGED <<destroyed, urlValid, activeCommands, cmds, sessions>>
    /\ UNCHANGED hostVars

\* A reconnect timer fires: () => this.#connect().  It is the timer the handle
\* names, or one whose handle was overwritten.
ReconnectFire ==
    /\ Len(sockets) < MaxSock
    /\ Quiet
    /\ attempt < AttemptCap
    /\ \E j \in Jitter, leakedOne \in BOOLEAN :
        /\ IF leakedOne THEN leakedTimers > 0 ELSE reconnectTimer.state = "pending"
        /\ Connect(j, IF leakedOne THEN reconnectTimer ELSE FiredTimer,
                   IF leakedOne THEN leakedTimers - 1 ELSE leakedTimers)
    /\ UNCHANGED <<started, destroyed, urlValid, activeCommands, cmds, sessions>>
    /\ UNCHANGED hostVars

\* An 'open' handler that sends the results no socket was open for.
SocketOpenFlushes(s) ==
    /\ sockets[s].state = "CONNECTING"
    /\ Quiet
    /\ sockets' = [sockets EXCEPT ![s].state = "OPEN"]
    /\ Reset
    /\ cmds' = [i \in DOMAIN cmds |->
                  IF Len(cmds[i].results) < Len(cmds[i].outcomes)
                  THEN [cmds[i] EXCEPT !.results = Append(@, "failed"), !.via = Append(@, s)]
                  ELSE cmds[i]]
    /\ UNCHANGED <<started, destroyed, urlValid, ws, activeCommands, sessions>>
    /\ UNCHANGED hostVars

\* 'open' of socket s: reconnect.reset().
SocketOpen(s) ==
    /\ sockets[s].state = "CONNECTING"
    /\ Quiet
    /\ sockets' = [sockets EXCEPT ![s].state = "OPEN"]
    /\ Reset
    /\ UNCHANGED <<started, destroyed, urlValid, ws, activeCommands, cmds, sessions>>
    /\ UNCHANGED hostVars

\* An 'error' handler that schedules a reconnect of its own.
SocketErrorReconnects(s) ==
    /\ sockets[s].state \in {"CONNECTING", "OPEN"}
    /\ Quiet
    /\ attempt < AttemptCap
    /\ sockets' = [sockets EXCEPT ![s].state = "CLOSING"]
    /\ \E j \in Jitter : ScheduleReconnect(j, reconnectTimer, leakedTimers)
    /\ UNCHANGED <<started, destroyed, urlValid, ws, activeCommands, cmds, sessions>>
    /\ UNCHANGED hostVars

\* 'error' of socket s: logged only.  The ws library emits 'close' after it.
SocketError(s) ==
    /\ sockets[s].state \in {"CONNECTING", "OPEN"}
    /\ Quiet
    /\ sockets' = [sockets EXCEPT ![s].state = "CLOSING"]
    /\ UNCHANGED <<started, destroyed, urlValid, ws, activeCommands, cmds, sessions>>
    /\ UNCHANGED hostVars
    /\ UNCHANGED backoffVars

\* A 'close' handler that forgets the socket and schedules nothing.
SocketCloseOnly(s) ==
    /\ sockets[s].state \in {"OPEN", "CLOSING"}
    /\ Quiet
    /\ sockets' = [sockets EXCEPT ![s].state = "CLOSED"]
    /\ ws' = 0
    /\ UNCHANGED <<started, destroyed, urlValid, activeCommands, cmds, sessions>>
    /\ UNCHANGED hostVars
    /\ UNCHANGED backoffVars

\* 'close' of socket s: #ws = null, then #scheduleReconnect().
SocketClose(s) ==
    /\ sockets[s].state \in {"OPEN", "CLOSING"}
    /\ Quiet
    /\ destroyed \/ attempt < AttemptCap
    /\ sockets' = [sockets EXCEPT ![s].state = "CLOSED"]
    /\ ws' = 0
    /\ \E j \in Jitter : ScheduleReconnect(j, reconnectTimer, leakedTimers)
    /\ UNCHANGED <<started, destroyed, urlValid, activeCommands, cmds, sessions>>
    /\ UNCHANGED hostVars

(***************************************************************************)
(* ProcessRegistry                                                         *)
(***************************************************************************)

\* A string of output is a sequence of segments <<k, lo, hi>>: the characters
\* lo..hi of the k-th chunk appended to the session.  The sizes of the chunks
\* a data event is tried with.
ChunkSizes == {1, TailChars, MaxOutputChars - 1, MaxOutputChars + 1}

SegLen(g) == g[3] - g[2] + 1

\* s.length
RECURSIVE StrLen(_)
StrLen(s) == IF s = <<>> THEN 0 ELSE SegLen(Head(s)) + StrLen(Tail(s))

\* s.slice(d) for 0 <= d <= s.length: the string without its first d characters.
RECURSIVE DropFirst(_, _)
DropFirst(s, d) ==
    IF d = 0 \/ s = <<>> THEN s
    ELSE IF SegLen(Head(s)) <= d
         THEN DropFirst(Tail(s), d - SegLen(Head(s)))
         ELSE <<[Head(s) EXCEPT ![2] = @ + d]>> \o Tail(s)

\* s.slice(0, n): the first n characters.
RECURSIVE TakeFirst(_, _)
TakeFirst(s, n) ==
    IF n = 0 \/ s = <<>> THEN <<>>
    ELSE IF SegLen(Head(s)) <= n
         THEN <<Head(s)>> \o TakeFirst(Tail(s), n - SegLen(Head(s)))
         ELSE <<[Head(s) EXCEPT ![3] = Head(s)[2] + n - 1]>>

\* s.slice(-n) for n > 0: the last n characters, the whole string if shorter.
SliceLast(s, n) == IF StrLen(s) <= n THEN s ELSE DropFirst(s, StrLen(s) - n)

\* The record addSession() inserts (pid 0 is undefined, id 0 is not yet
\* given).  written is the history of the sizes of the chunks appended,
\* killTimers the number of pending SIGKILL timers of killSession.
NewSession ==
    [id |-> 0, pid |-> 0, exited |-> FALSE, exitCode |-> "unset", exitSignal |-> "unset",
     backgrounded |-> FALSE, stdin |-> FALSE,
     aggregated |-> <<>>, tail |-> <<>>, written |-> <<>>, killTimers |-> 0]

\* The slugs Math.random() can spell.
Slugs == 1..MaxSlug

\* A #createSessionSlug that returns its first candidate.
CreateSessionSlugUnchecked(table) == Slugs

\* #createSessionSlug(): the slugs it may return for the session table, a
\* candidate that is a key of the table being drawn again.
CreateSessionSlug(table) ==
    {x \in Slugs : \A s \in 1..Len(table) : table[s].id # x}

\* addSession(command, cwd) when the slug drawn is slug: #sessions.set(id,
\* session) adds the record, or replaces the record that has the key.
AddSession(table, slug) ==
    IF \E s \in 1..Len(table) : table[s].id = slug
    THEN [s \in 1..Len(table) |->
            IF table[s].id = slug THEN [NewSession EXCEPT !.id = slug] ELSE table[s]]
    ELSE Append(table, [NewSession EXCEPT !.id = slug])

\* The slug executeShell's addSession is given: slugs are opaque and only
\* compared, so one representative of the possible draws is followed.
LeastSlug(table) ==
    CHOOSE x \in CreateSessionSlug(table) : \A y \in CreateSessionSlug(table) : x <= y

\* An #updateTail that leaves the tail as it was.
UpdateTailStale(sess) == sess

\* #updateTail(session)
UpdateTail(sess) ==
    [sess EXCEPT !.tail = IF StrLen(sess.aggregated) <= TailChars
                          THEN sess.aggregated
                          ELSE SliceLast(sess.aggregated, TailChars)]

\* An appendOutput without the truncation.
AppendOutputUnbounded(sess, n) ==
    UpdateTail([sess EXCEPT
        !.aggregated = Append(@, <<Len(sess.written) + 1, 1, n>>),
        !.written = Append(@, n)])

\* An appendOutput whose truncation keeps the oldest characters.
AppendOutputKeepOldest(sess, n) ==
    UpdateTail([sess EXCEPT
        !.aggregated = TakeFirst(Append(@, <<Len(sess.written) + 1, 1, n>>), MaxOutputChars),
        !.written = Append(@, n)])

\* appendOutput(id, data) on the record sess, data a new chunk of n characters.
AppendOutput(sess, n) ==
    LET newOutput == Append(sess.aggregated, <<Len(sess.written) + 1, 1, n>>)
    IN  UpdateTail([sess EXCEPT
            !.aggregated = IF StrLen(newOutput) > MaxOutputChars
                           THEN SliceLast(newOutput, MaxOutputChars)
                           ELSE newOutput,
            !.written = Append(@, n)])

\* A markExited that keeps the input handle.
MarkExitedKeepsStdin(sess, code, signal) ==
    [sess EXCEPT !.exited = TRUE, !.exitCode = code, !.exitSignal = signal]

\* A markExited that keeps what the first call recorded.
MarkExitedFirstWins(sess, code, signal) ==
    IF sess.exited THEN sess
    ELSE [sess EXCEPT !.exited = TRUE, !.exitCode = code, !.exitSignal = signal,
                      !.stdin = FALSE]

\* markExited(id, exitCode, exitSignal) on the record sess.
MarkExited(sess, code, signal) ==
    [sess EXCEPT !.exited = TRUE, !.exitCode = code, !.exitSignal = signal,
                 !.stdin = FALSE]

\* The exit codes and signals markExited is called with.
ExitCodes == {"0", "1", "-2", "null"}
ExitSignals == {"undefined", "SIGTERM", "SIGKILL"}

\* markBackgrounded(id) on the record sess.
MarkBackgrounded(sess) == [sess EXCEPT !.backgrounded = TRUE]

(***************************************************************************)
(* FileExecutor                                                            *)
(***************************************************************************)

\* A path is a sequence of names.  An input path (payload.path) that starts
\* with the name "/" is absolute; NoPath is a payload without a path.  A text
\* (file content, oldText, newText) is a sequence of characters.
RootPath == <<"srv", "root">>
NoPath == <<"(undefined)">>
LinkPath == <<"srv", "root", "ln">>
LinkTarget == <<"etc">>

\* The entry of a regular file, and of the symbolic link to a directory.
File(content) == [kind |-> "file", content |-> content]
Link == [kind |-> "link", content |-> <<>>]

\* path.resolve on the names of an absolute path: "." and empty names are
\* dropped, ".." removes the name before it (none at the top).
RECURSIVE Normalize(_, _)
Normalize(done, rest) ==
    IF rest = <<>> THEN done
    ELSE IF Head(rest) = ".."
         THEN Normalize(IF done = <<>> THEN done ELSE SubSeq(done, 1, Len(done) - 1), Tail(rest))
         ELSE IF Head(rest) = "."
              THEN Normalize(done, Tail(rest))
              ELSE Normalize(Append(done, Head(rest)), Tail(rest))

\* resolve(rootPath, inputPath)
Resolve(root, input) ==
    IF input # <<>> /\ Head(input) = "/"
    THEN Normalize(<<>>, Tail(input))
    ELSE Normalize(<<>>, root \o input)

\* The length of the longest common prefix of two paths.
RECURSIVE Common(_, _)
Common(a, b) ==
    IF a = <<>> \/ b = <<>> \/ Head(a) # Head(b) THEN 0
    ELSE 1 + Common(Tail(a), Tail(b))

\* relative(from, to) for two resolved paths.
Relative(from, to) ==
    LET k == Common(from, to)
    IN  [i \in 1..(Len(from) - k) |-> ".."] \o SubSeq(to, k + 1, Len(to))

\* relativePath.startsWith('..'): the first name is ".." or begins with "..".
StartsWithDotDot(rel) == rel # <<>> /\ Head(rel) \in {"..", "..x"}

\* #validatePath(inputPath): the resolved path, or null (valid FALSE) when
\* resolve throws or the path relative to the root starts with "..".
ValidatePath(input) ==
    IF input = NoPath THEN [valid |-> FALSE, path |-> <<>>]
    ELSE LET resolvedPath == Resolve(RootPath, input)
         IN  IF StartsWithDotDot(Relative(RootPath, resolvedPath))
             THEN [valid |-> FALSE, path |-> <<>>]
             ELSE [valid |-> TRUE, path |-> resolvedPath]

\* The file the operating system reaches under a resolved path: a symbolic
\* link on the way is followed.
Physical(fs, path) ==
    IF /\ LinkPath \in DOMAIN fs
       /\ fs[LinkPath].kind = "link"
       /\ Len(path) >= Len(LinkPath)
       /\ SubSeq(path, 1, Len(LinkPath)) = LinkPath
    THEN LinkTarget \o SubSeq(path, Len(LinkPath) + 1, Len(path))
    ELSE path

\* The file system fs with the symbolic link in the root.
WithLink(fs) == [q \in DOMAIN fs \cup {LinkPath} |-> IF q = LinkPath THEN Link ELSE fs[q]]

\* The path is the root or lies below it.
UnderRoot(path) ==
    Len(path) >= Len(RootPath) /\ SubSeq(path, 1, Len(RootPath)) = RootPath

\* A file system with one file in the root and one outside, and no link.
PlainFiles ==
    [q \in {RootPath \o <<"f">>, <<"etc", "p">>} |-> File(<<"a", "b">>)]

IsFile(fs, path) == path \in DOMAIN fs /\ fs[path].kind = "file"

\* The path names a directory: something exists below it.
IsDir(fs, path) ==
    \E q \in DOMAIN fs : Len(q) > Len(path) /\ SubSeq(q, 1, Len(path)) = path

\* A regular file stands where a directory is needed on the way to path.
BlockedByFile(fs, path) ==
    \E k \in 1..(Len(path) - 1) : IsFile(fs, SubSeq(path, 1, k))

\* writeFileSync(path, content) on the file system fs.
WriteFile(fs, path, content) ==
    [q \in DOMAIN fs \cup {path} |-> IF q = path THEN File(content) ELSE fs[q]]

\* content.indexOf(text): the index (from 0) of the first occurrence, -1 if
\* there is none; the empty text occurs at 0.
IndexOf(content, text) ==
    LET at == {i \in 0..(Len(content) - Len(text)) :
                  SubSeq(content, i + 1, i + Len(text)) = text}
    IN  IF at = {} THEN -1 ELSE CHOOSE i \in at : \A j \in at : i <= j

\* The result of a file operation: success, the file system afterwards, and
\* the file the operating system was asked about (<<>>: no file system call
\* was made).
Refused(fs) == [success |-> FALSE, fs |-> fs, touched |-> <<>>]

\* read(payload)
FileRead(fs, input) ==
    LET v == ValidatePath(input)
        target == Physical(fs, v.path)
    IN  IF ~v.valid THEN Refused(fs)
        ELSE [success |-> IsFile(fs, target), fs |-> fs, touched |-> target]

\* write(payload): parent directories are made as needed; the write fails
\* when the path is a directory or a file stands in the way.
FileWrite(fs, input, content) ==
    LET v == ValidatePath(input)
        target == Physical(fs, v.path)
    IN  IF ~v.valid THEN Refused(fs)
        ELSE IF IsDir(fs, target) \/ BlockedByFile(fs, target) \/ target = <<>>
             THEN [success |-> FALSE, fs |-> fs, touched |-> target]
             ELSE [success |-> TRUE, fs |-> WriteFile(fs, target, content), touched |-> target]

\* The outcome of edit() on a file content: <<found, new content>>.  The
\* first occurrence of oldText is replaced.
Replaced(content, oldText, newText) ==
    LET oldTextIndex == IndexOf(content, oldText)
    IN  IF oldTextIndex = -1 THEN <<FALSE, content>>
        ELSE <<TRUE, SubSeq(content, 1, oldTextIndex) \o newText
                     \o SubSeq(content, oldTextIndex + Len(oldText) + 1, Len(content))>>

\* edit(payload)
FileEdit(fs, input, oldText, newText) ==
    LET v == ValidatePath(input)
        target == Physical(fs, v.path)
    IN  IF ~v.valid THEN Refused(fs)
        ELSE IF ~IsFile(fs, target)
             THEN [success |-> FALSE, fs |-> fs, touched |-> target]
             ELSE LET r == Replaced(fs[target].content, oldText, newText)
                  IN  [success |-> r[1],
                       fs |-> IF r[1] THEN WriteFile(fs, target, r[2]) ELSE fs,
                       touched |-> target]

(***************************************************************************)
(* Actuator: command handling                                              *)
(***************************************************************************)

\* #send(): a message goes out only when #ws is a socket whose readyState is OPEN.
CanSend == ws # 0 /\ sockets[ws].state = "OPEN"

\* A #sendResult that only uses the socket the command was delivered on.
SendResultOnOwnSocket(c, status) ==
    IF CanSend /\ c.sock = ws
    THEN [c EXCEPT !.results = Append(@, status),
                   !.folded = Append(@, <<c.stdout, c.stderr>>),
                   !.via = Append(@, ws)]
    ELSE c

\* #sendResult(id, status, result) by command record c: the message goes out
\* on #ws.
SendResult(c, status) ==
    IF CanSend
    THEN [c EXCEPT !.results = Append(@, status),
                   !.folded = Append(@, <<c.stdout, c.stderr>>),
                   !.via = Append(@, ws)]
    ELSE c

\* The record of a command_delivery before any capability handler ran.
\* target: the session a process command found, 0 otherwise; action: the
\* action of a process command; error: the error text of the failed result the
\* delivery handler produced; timeoutMs: the delay of the hard timeout timer;
\* stdout, stderr: the accumulators of #handleExecCommand; folded: the stdout
\* and stderr carried by each result sent; emitted: the chunks the process
\* emitted, each with its stream and length; stdinWrites: the write() calls made
\* on the input handle of the process; touched: the file a file command made
\* the operating system look at; file: the path, oldText and newText of a file
\* command and the success of the FileExecutor's result; sock: the socket the
\* delivery arrived on; via: the socket each result was sent on; dropped: the
\* fields of the payload that were set and not handed to #handleExecCommand.
NewCmd(id, cap) ==
    [id |-> id, cap |-> cap, pc |-> "done",
     yieldReq |-> FALSE, sid |-> 0, child |-> "none", exit |-> "none",
     sigs |-> {}, killed |-> FALSE, timer |-> "none", yieldTimer |-> "none",
     graceTimer |-> "none", outcomes |-> <<>>, results |-> <<>>, target |-> 0,
     action |-> "none", error |-> "none", timeoutReq |-> <<FALSE, 0>>, timeoutMs |-> 0,
     stdout |-> <<>>, stderr |-> <<>>, folded |-> <<>>, emitted |-> <<>>,
     stdinWrites |-> 0, touched |-> <<>>, file |-> <<>>, sock |-> 0, via |-> <<>>,
     dropped |-> {}, background |-> FALSE]

\* onDone(exitCode, durationMs, session): the command record afterwards.
OnDone(c, code) ==
    SendResult([c EXCEPT !.outcomes = Append(@, "done")],
               IF code = "0" THEN "completed" ELSE "failed")

\* onError(error, session): the command record afterwards.
OnError(c) ==
    SendResult([c EXCEPT !.outcomes = Append(@, "error")], "failed")

\* onYield(session): the command record afterwards.
OnYield(c) ==
    SendResult([c EXCEPT !.outcomes = Append(@, "yield")], "running")

\* activeCommands.delete(id), done by onDone and onError.
Deleted(id) == [activeCommands EXCEPT ![id] = 0]

\* clearTimeout on a timer in state t.
Cleared(t) == IF t = "pending" THEN "cleared" ELSE t

\* A child process that a signal can still reach.
Alive(c) == c.child = "running"

\* process.kill(pid, sig) on the child of c: delivered when the process is
\* alive, ESRCH (thrown, caught by every caller) otherwise.
Signalled(c, sig) == IF Alive(c) THEN [c EXCEPT !.sigs = @ \cup {sig}] ELSE c

(***************************************************************************)
(* executeShell                                                            *)
(***************************************************************************)

\* An executeShell that marks the session backgrounded when opts.background
\* is set.
SpawnedBackgrounds(c, sess, sp) ==
    IF sp = "throw"
    THEN <<OnError([c EXCEPT !.pc = "returned"]), MarkExited(sess, "1", "undefined"), TRUE>>
    ELSE <<[c EXCEPT !.pc = "returned",
                     !.child = IF sp = "ok" THEN "running" ELSE "failA",
                     !.timer = "pending",
                     !.yieldTimer = IF c.yieldReq THEN "pending" ELSE "none"],
           [sess EXCEPT !.pid = IF sp = "ok" THEN c.sid ELSE 0, !.stdin = TRUE,
                        !.backgrounded = c.background],
           FALSE>>

\* executeShell from the spawn on (part_002 lines 52-164), for command record c
\* with session sess.  sp is what the spawn does: "throw" (synchronous throw),
\* "asyncfail" (the ChildProcess has no pid and emits 'error' at the next
\* tick, then 'close'), "ok".  Gives <<command record, session record,
\* whether onError ran>>.
Spawned(c, sess, sp) ==
    IF sp = "throw"
    THEN <<OnError([c EXCEPT !.pc = "returned"]), MarkExited(sess, "1", "undefined"), TRUE>>
    ELSE <<[c EXCEPT !.pc = "returned",
                     !.child = IF sp = "ok" THEN "running" ELSE "failA",
                     !.timer = "pending",
                     !.yieldTimer = IF c.yieldReq THEN "pending" ELSE "none"],
           [sess EXCEPT !.pid = IF sp = "ok" THEN c.sid ELSE 0, !.stdin = TRUE],
           FALSE>>

SpawnKinds(usePty) == IF usePty THEN {"throw", "ok"} ELSE {"throw", "asyncfail", "ok"}

\* #handleExecCommand(id, payload) for a payload with a command: the session
\* is registered, then executeShell either awaits the node-pty import (pty)
\* or spawns at once.
HandleExec(c, pty, sp) ==
    LET sid == Len(sessions) + 1
        c1 == [c EXCEPT !.sid = sid]
        added == AddSession(sessions, LeastSlug(sessions))
        r == Spawned(c1, added[sid], sp)
    IN  IF pty
        THEN /\ cmds' = Append(cmds, [c1 EXCEPT !.pc = "import"])
             /\ sessions' = added
             /\ UNCHANGED activeCommands
        ELSE /\ cmds' = Append(cmds, r[1])
             /\ sessions' = [added EXCEPT ![sid] = r[2]]
             /\ activeCommands' = (IF r[3] THEN Deleted(c.id) ELSE activeCommands)

(***************************************************************************)
(* ProcessHandler                                                          *)
(***************************************************************************)

\* The command whose executeShell call registered session t.
Owner(t) == CHOOSE i \in 1..Len(cmds) : cmds[i].sid = t

\* processRegistry.killSession(id) for session t: <<command record of the
\* owner, session record, value returned>>.  SIGTERM goes to the pid; when it
\* is delivered a SIGKILL timer is set, when process.kill throws or there is
\* no pid nothing is.
KillSession(t) ==
    IF sessions[t].pid # 0 /\ Alive(cmds[Owner(t)])
    THEN <<Signalled(cmds[Owner(t)], "SIGTERM"),
           [sessions[t] EXCEPT !.killTimers = @ + 1], TRUE>>
    ELSE <<cmds[Owner(t)], sessions[t], FALSE>>

\* A #killSession without the exited test.
HandlerKillSessionUnchecked(t) == KillSession(t)

\* ProcessHandler.#killSession(sessionId) for the existing session t.
HandlerKillSession(t) ==
    IF sessions[t].exited
    THEN <<cmds[Owner(t)], sessions[t], FALSE>>
    ELSE KillSession(t)

\* processRegistry.getSession(sessionId): the place of the session in the
\* table, 0 when there is none (sessionId 0 is an absent sessionId).
GetSession(sessionId) ==
    IF \E t \in 1..Len(sessions) : sessions[t].id = sessionId
    THEN CHOOSE t \in 1..Len(sessions) : sessions[t].id = sessionId
    ELSE 0

\* What a ProcessHandler method gives: the command records and the session
\* table afterwards, and result.success.
Failure == <<cmds, sessions, FALSE>>
Success == <<cmds, sessions, TRUE>>

\* n calls of session.stdin.write on the input handle of session t.
StdinWrite(t, n) ==
    <<[cmds EXCEPT ![Owner(t)].stdinWrites = @ + n], sessions, TRUE>>

\* A #writeToSession that writes to whatever session it finds.
WriteToSessionUnchecked(sessionId, hasData) ==
    IF sessionId = 0 \/ ~hasData \/ GetSession(sessionId) = 0 THEN Failure
    ELSE StdinWrite(GetSession(sessionId), 1)

\* #writeToSession(sessionId, data); hasData: data is not undefined.
WriteToSession(sessionId, hasData) ==
    IF sessionId = 0 THEN Failure
    ELSE IF ~hasData THEN Failure
    ELSE IF GetSession(sessionId) = 0 THEN Failure
    ELSE IF sessions[GetSession(sessionId)].exited THEN Failure
    ELSE IF ~sessions[GetSession(sessionId)].stdin THEN Failure
    ELSE StdinWrite(GetSession(sessionId), 1)

\* #sendKeysToSession(sessionId, keys); nkeys: keys.length, 0 also for no keys.
SendKeysToSession(sessionId, nkeys) ==
    IF sessionId = 0 THEN Failure
    ELSE IF nkeys = 0 THEN Failure
    ELSE IF GetSession(sessionId) = 0 THEN Failure
    ELSE IF sessions[GetSession(sessionId)].exited THEN Failure
    ELSE IF ~sessions[GetSession(sessionId)].stdin THEN Failure
    ELSE StdinWrite(GetSession(sessionId), nkeys)

\* #pollSession(sessionId) and #getSessionLog(sessionId, offset, limit)
PollSession(sessionId) ==
    IF sessionId = 0 \/ GetSession(sessionId) = 0 THEN Failure ELSE Success

\* #killSession(sessionId)
KillBySessionId(sessionId) ==
    IF sessionId = 0 \/ GetSession(sessionId) = 0 THEN Failure
    ELSE LET t == GetSession(sessionId)
             r == HandlerKillSession(t)
         IN  <<[cmds EXCEPT ![Owner(t)] = r[1]], [sessions EXCEPT ![t] = r[2]], r[3]>>

\* handle(payload)
ProcessHandle(p) ==
    CASE p.action = "list" -> Success
      [] p.action \in {"poll", "log"} -> PollSession(p.session)
      [] p.action = "write" -> WriteToSession(p.session, p.items > 0)
      [] p.action = "send-keys" -> SendKeysToSession(p.session, p.items)
      [] p.action = "kill" -> KillBySessionId(p.session)
      [] OTHER -> Failure

(***************************************************************************)
(* Actuator: command_delivery                                              *)
(***************************************************************************)

\* The capabilities #handleCommand has a case for.
Recognised == {"exec", "process", "read", "write", "edit", "actuator/shell", "shell"}

DefaultTimeout == 1800
MaxTimeout == 3600

\* A timeoutMs without the cap.
TimeoutMsUncapped(given, timeout) ==
    (IF given THEN timeout ELSE DefaultTimeout) * 1000

\* timeoutMs of executeShell for the timeout asked for (given: opts.timeout
\* is neither undefined nor null).
TimeoutMs(given, timeout) ==
    Min(IF given THEN timeout ELSE DefaultTimeout, MaxTimeout) * 1000

\* A payload: body is "object", "null" or "absent" (the delivery has no
\* payload).  hasCommand: payload.command is a non-empty string; pty,
\* yieldReq: payload.pty and payload.yieldMs are set; sp: what the spawn does;
\* hasTimeout, timeout: payload.timeout; action, session, items: the action,
\* the sessionId (0: none) and the data (1: given) or number of keys of a
\* process payload; path, oldText, newText: the fields of a file payload
\* (newText is the content of a write); background: payload.background.
Payload(cap) ==
    [cap |-> cap, body |-> "object", hasCommand |-> FALSE, pty |-> FALSE,
     yieldReq |-> FALSE, background |-> FALSE,
     sp |-> "ok", hasTimeout |-> FALSE, timeout |-> 0,
     action |-> "none", session |-> 0, items |-> 0,
     path |-> NoPath, oldText |-> <<>>, newText |-> <<>>]

\* The exec payloads (exec and its legacy aliases) a delivery is tried with.
ExecPayloads ==
    { p \in { [Payload(cap) EXCEPT !.hasCommand = h, !.pty = y, !.yieldReq = q, !.sp = sp] :
                 cap \in {"exec", "actuator/shell", "shell"}, h \in BOOLEAN,
                 y \in BOOLEAN, q \in BOOLEAN, sp \in {"throw", "asyncfail", "ok"} } :
        /\ p.cap # "exec" => ~p.pty /\ ~p.yieldReq
        /\ ~p.hasCommand => ~p.pty /\ ~p.yieldReq
        /\ (~p.hasCommand \/ p.pty) => p.sp = "ok" }

\* A path inside the root and a path that leaves it.
InsidePath == <<"f">>
OutsidePath == <<"..", "..", "etc", "p">>

\* The payloads a command_delivery is tried with where the capability
\* handlers are not what is looked at: every exec payload, and for process,
\* read, write and edit one payload that succeeds and one that fails.
Payloads ==
    ExecPayloads
    \cup {Payload("bogus"), [Payload("bogus") EXCEPT !.body = "null"],
          [Payload("process") EXCEPT !.action = "list"],
          [Payload("process") EXCEPT !.action = "poll"]}
    \cup {[Payload(cap) EXCEPT !.path = path, !.oldText = <<"a">>, !.newText = <<"b">>] :
             cap \in {"read", "write", "edit"}, path \in {InsidePath, OutsidePath}}

\* The payload of a process kill for session t.
KillPayload(t) ==
    [Payload("process") EXCEPT !.action = "kill", !.session = sessions[t].id]

\* The ids the broker may put on the next delivery: one used before, or the
\* least unused one (ids are interchangeable).
FreshIds ==
    {id \in CmdIds : \A k \in 1..(id - 1) : \E i \in 1..Len(cmds) : cmds[i].id = k}

\* A failure that is recorded and not sent.
FailSilent(c, error) == [c EXCEPT !.error = error]

\* #sendResult(id, 'failed', {error}) by the delivery handler.
Fail(c, error) == SendResult([c EXCEPT !.error = error], "failed")

\* #handleProcessCommand(id, payload)
HandleProcessCommand(c, p) ==
    LET r == ProcessHandle(p)
        c1 == [c EXCEPT !.action = p.action, !.target = GetSession(p.session)]
    IN  /\ cmds' = Append(r[1], IF r[3] THEN SendResult(c1, "completed")
                                ELSE Fail(c1, "process"))
        /\ sessions' = r[2]
        /\ UNCHANGED <<activeCommands, files>>

\* #handleReadCommand, #handleWriteCommand, #handleEditCommand
HandleFileCommand(c, p) ==
    LET r == CASE p.cap = "read" -> FileRead(files, p.path)
               [] p.cap = "write" -> FileWrite(files, p.path, p.newText)
               [] p.cap = "edit" -> FileEdit(files, p.path, p.oldText, p.newText)
        c1 == [c EXCEPT !.touched = r.touched,
                        !.file = <<p.path, p.oldText, p.newText, r.success>>]
    IN  /\ cmds' = Append(cmds, IF r.success THEN SendResult(c1, "completed")
                                ELSE Fail(c1, "file"))
        /\ files' = r.fs
        /\ UNCHANGED <<sessions, activeCommands>>

\* The payload fields of an exec that are set in p.
ExecOptions(p) ==
    {f \in {"pty", "yieldMs", "background"} :
        \/ f = "pty" /\ p.pty
        \/ f = "yieldMs" /\ p.yieldReq
        \/ f = "background" /\ p.background}

\* A legacy alias that hands the payload on as it came.
LegacyPassThrough(p) == p

\* The payload the legacy aliases hand to #handleExecCommand:
\* {command, cwd, timeout, env} and nothing else.
LegacyExecPayload(p) ==
    [p EXCEPT !.pty = FALSE, !.yieldReq = FALSE, !.background = FALSE]

\* The switch of #handleCommand(msg) for the command record c and the payload
\* p.  Reading a field of a payload that is null or absent throws a TypeError
\* inside the async function: its promise is rejected, nothing handles the
\* rejection and no result is sent.
Dispatch(c, p) ==
    IF p.cap \in Recognised /\ p.body # "object"
    THEN /\ cmds' = Append(cmds, [c EXCEPT !.pc = "rejected"])
         /\ UNCHANGED <<sessions, activeCommands, files>>
    ELSE IF p.cap \in {"exec", "actuator/shell", "shell"} /\ p.hasCommand
    THEN /\ LET q == IF p.cap = "exec" THEN p ELSE LegacyExecPayload(p)
            IN  HandleExec([c EXCEPT !.yieldReq = q.yieldReq,
                                     !.timeoutReq = <<q.hasTimeout, q.timeout>>,
                                     !.timeoutMs = TimeoutMs(q.hasTimeout, q.timeout),
                                     !.dropped = ExecOptions(p) \ ExecOptions(q),
                                     !.background = q.background],
                           q.pty, q.sp)
         /\ UNCHANGED files
    ELSE IF p.cap = "process" THEN HandleProcessCommand(c, p)
    ELSE IF p.cap \in {"read", "write", "edit"} THEN HandleFileCommand(c, p)
    ELSE /\ cmds' = Append(cmds, Fail(c, IF p.cap \in Recognised THEN "no-command"
                                         ELSE "unsupported"))
         /\ UNCHANGED <<sessions, activeCommands, files>>

\* A #handleCommand without the brain-mode test.
HandleCommandIgnoringBrainMode(c, p) == Dispatch(c, p)

\* #handleCommand(msg): in brain mode the command is refused, otherwise the
\* capability picks the handler.
HandleCommand(c, p) ==
    IF brainMode
    THEN /\ cmds' = Append(cmds, Fail(c, "brain-mode"))
         /\ UNCHANGED <<sessions, activeCommands, files>>
    ELSE Dispatch(c, p)

\* 'message' of socket s carrying command_delivery{id, capability, payload}:
\* #handleMessage, #handleCommand and the capability handler it picks.
Deliver(s, id, p) ==
    /\ sockets[s].state = "OPEN"
    /\ Quiet
    /\ HandleCommand([NewCmd(id, p.cap) EXCEPT !.sock = s], p)
    /\ UNCHANGED brainMode
    /\ UNCHANGED connVars
    /\ UNCHANGED backoffVars

\* The node-pty import settles and executeShell goes on to the spawn.
ImportDone(i, sp) ==
    /\ cmds[i].pc = "import"
    /\ LET r == Spawned(cmds[i], sessions[cmds[i].sid], sp)
       IN  /\ cmds' = [cmds EXCEPT ![i] = r[1]]
           /\ sessions' = [sessions EXCEPT ![cmds[i].sid] = r[2]]
           /\ activeCommands' = (IF r[3] THEN Deleted(cmds[i].id) ELSE activeCommands)
    /\ UNCHANGED connVars
    /\ UNCHANGED hostVars
    /\ UNCHANGED backoffVars

\* The continuation of `await executeShell(...)`: the kill closure is stored.
ExecRegister(i) ==
    /\ cmds[i].pc = "returned"
    /\ cmds' = [cmds EXCEPT ![i].pc = "registered"]
    /\ activeCommands' = [activeCommands EXCEPT ![cmds[i].id] = i]
    /\ UNCHANGED sessions
    /\ UNCHANGED connVars
    /\ UNCHANGED hostVars
    /\ UNCHANGED backoffVars

\* A timeout handler that kills the process and reports nothing.
TimeoutFireSilent(i) ==
    /\ cmds[i].timer = "pending"
    /\ Quiet
    /\ LET c == cmds[i]
           sess == sessions[c.sid]
       IN  /\ cmds' = [cmds EXCEPT ![i] =
                         [Signalled(c, "SIGTERM") EXCEPT !.timer = "fired", !.killed = TRUE]]
           /\ sessions' = [sessions EXCEPT ![c.sid] = MarkExited(sess, "1", "SIGTERM")]
           /\ activeCommands' = Deleted(c.id)
    /\ UNCHANGED connVars
    /\ UNCHANGED hostVars
    /\ UNCHANGED backoffVars

\* The hard timeout timer of command i fires.
TimeoutFire(i) ==
    /\ cmds[i].timer = "pending"
    /\ Quiet
    /\ LET c == cmds[i]
           sess == sessions[c.sid]
           c1 == [c EXCEPT !.timer = "fired"]
           c2 == [Signalled(c1, "SIGTERM") EXCEPT
                     !.killed = TRUE,
                     !.graceTimer = IF sess.pid # 0 /\ Alive(c) THEN "pending" ELSE @]
       IN  IF ~c.killed
           THEN /\ cmds' = [cmds EXCEPT ![i] = OnError(IF sess.pid # 0 THEN c2
                                                       ELSE [c1 EXCEPT !.killed = TRUE])]
                /\ sessions' = [sessions EXCEPT ![c.sid] = MarkExited(sess, "1", "SIGTERM")]
                /\ activeCommands' = Deleted(c.id)
           ELSE /\ cmds' = [cmds EXCEPT ![i] = c1]
                /\ UNCHANGED <<sessions, activeCommands>>
    /\ UNCHANGED connVars
    /\ UNCHANGED hostVars
    /\ UNCHANGED backoffVars

\* The SIGKILL timer set by the timeout handler fires, 5 seconds after SIGTERM.
GraceFire(i) ==
    /\ cmds[i].graceTimer = "pending"
    /\ Quiet
    /\ LET c == [cmds[i] EXCEPT !.graceTimer = "fired"]
           sess == sessions[c.sid]
       IN  cmds' = [cmds EXCEPT ![i] = IF sess.pid # 0 /\ ~sess.exited
                                       THEN Signalled(c, "SIGKILL") ELSE c]
    /\ UNCHANGED <<sessions, activeCommands>>
    /\ UNCHANGED connVars
    /\ UNCHANGED hostVars
    /\ UNCHANGED backoffVars

\* A yield handler without the killed / exited test.
YieldFireUnguarded(i) ==
    /\ cmds[i].yieldTimer = "pending"
    /\ Quiet
    /\ cmds' = [cmds EXCEPT ![i] = OnYield([cmds[i] EXCEPT !.yieldTimer = "fired"])]
    /\ sessions' = [sessions EXCEPT ![cmds[i].sid] = MarkBackgrounded(@)]
    /\ UNCHANGED activeCommands
    /\ UNCHANGED connVars
    /\ UNCHANGED hostVars
    /\ UNCHANGED backoffVars

\* The yield timer of command i fires.
YieldFire(i) ==
    /\ cmds[i].yieldTimer = "pending"
    /\ Quiet
    /\ LET c == [cmds[i] EXCEPT !.yieldTimer = "fired"]
           sess == sessions[c.sid]
       IN  IF ~c.killed /\ ~sess.exited
           THEN /\ cmds' = [cmds EXCEPT ![i] = OnYield(c)]
                /\ sessions' = [sessions EXCEPT ![c.sid] = MarkBackgrounded(sess)]
           ELSE /\ cmds' = [cmds EXCEPT ![i] = c]
                /\ UNCHANGED sessions
    /\ UNCHANGED activeCommands
    /\ UNCHANGED connVars
    /\ UNCHANGED hostVars
    /\ UNCHANGED backoffVars

\* The operating-system process of command i terminates: on its own with
\* exit code "0" or "1", or by a signal it was sent.
ProcExit(i, how) ==
    /\ cmds[i].child = "running"
    /\ how \in {"0", "1"} \cup cmds[i].sigs
    /\ cmds' = [cmds EXCEPT ![i].child = "exited", ![i].exit = how]
    /\ UNCHANGED <<sessions, activeCommands>>
    /\ UNCHANGED connVars
    /\ UNCHANGED hostVars
    /\ UNCHANGED backoffVars

\* The chunks of a stream among the chunks a process emitted, as the string
\* they make up: chunk k of the process is the segment <<k, 1, n>>.
RECURSIVE StreamText(_, _, _)
StreamText(emitted, stream, k) ==
    IF k > Len(emitted) THEN <<>>
    ELSE IF emitted[k][1] = stream
         THEN <<(<<k, 1, emitted[k][2]>>)>> \o StreamText(emitted, stream, k + 1)
         ELSE StreamText(emitted, stream, k + 1)

\* Accumulators cut to the newest MaxOutputChars characters, as the registry
\* cuts its aggregated output.
AccumulateTruncating(acc, k, n) ==
    LET all == Append(acc, <<k, 1, n>>)
    IN  IF StrLen(all) > MaxOutputChars THEN SliceLast(all, MaxOutputChars) ELSE all

\* onStdout / onStderr of #handleExecCommand: `stdout += data`.
Accumulate(acc, k, n) == Append(acc, <<k, 1, n>>)

\* 'data' of stdout or stderr (onData of the pty, which has the one stream) of
\* command i, a chunk of n characters: appendOutput, then the accumulator of
\* the stream. The streams deliver until they end, which 'close' follows.
ProcData(i, n, stream) ==
    /\ cmds[i].child \in {"running", "exited"}
    /\ Quiet
    /\ Len(sessions[cmds[i].sid].written) < MaxChunks
    /\ sessions' = [sessions EXCEPT ![cmds[i].sid] = AppendOutput(@, n)]
    /\ LET k == Len(cmds[i].emitted) + 1
       IN  cmds' = [cmds EXCEPT
               ![i].emitted = Append(@, <<stream, n>>),
               ![i].stdout = IF stream = "stdout" THEN Accumulate(@, k, n) ELSE @,
               ![i].stderr = IF stream = "stderr" THEN Accumulate(@, k, n) ELSE @]
    /\ UNCHANGED activeCommands
    /\ UNCHANGED connVars
    /\ UNCHANGED hostVars
    /\ UNCHANGED backoffVars

\* An 'error' handler that leaves the timers running.
ProcErrorKeepsTimers(i) ==
    /\ cmds[i].child = "failA"
    /\ LET c == [cmds[i] EXCEPT !.child = "failB", !.exit = "-2"]
           sess == sessions[c.sid]
       IN  /\ cmds' = [cmds EXCEPT ![i] = OnError(c)]
           /\ sessions' = [sessions EXCEPT ![c.sid] = MarkExited(sess, "1", "undefined")]
           /\ activeCommands' = Deleted(c.id)
    /\ UNCHANGED connVars
    /\ UNCHANGED hostVars
    /\ UNCHANGED backoffVars

\* 'error' of the ChildProcess of command i (the spawn failed asynchronously).
ProcError(i) ==
    /\ cmds[i].child = "failA"
    /\ LET c == [cmds[i] EXCEPT !.child = "failB", !.exit = "-2",
                                !.timer = Cleared(@), !.yieldTimer = Cleared(@)]
           sess == sessions[c.sid]
       IN  IF ~c.killed
           THEN /\ cmds' = [cmds EXCEPT ![i] = OnError(c)]
                /\ sessions' = [sessions EXCEPT ![c.sid] = MarkExited(sess, "1", "undefined")]
                /\ activeCommands' = Deleted(c.id)
           ELSE /\ cmds' = [cmds EXCEPT ![i] = c]
                /\ UNCHANGED <<sessions, activeCommands>>
    /\ UNCHANGED connVars
    /\ UNCHANGED hostVars
    /\ UNCHANGED backoffVars

\* A 'close' handler without the killed test.
ProcCloseUnguarded(i) ==
    /\ cmds[i].child \in {"exited", "failB"}
    /\ Quiet
    /\ LET c == [cmds[i] EXCEPT !.child = "closed", !.exit = "none",
                                !.timer = Cleared(@), !.yieldTimer = Cleared(@)]
           sess == sessions[c.sid]
           exit == cmds[i].exit
           bySignal == exit \in {"SIGTERM", "SIGKILL"}
           code == IF bySignal THEN "null" ELSE exit
           signal == IF bySignal THEN exit ELSE "undefined"
       IN  /\ cmds' = [cmds EXCEPT ![i] = OnDone(c, IF code = "null" THEN "1" ELSE code)]
           /\ sessions' = [sessions EXCEPT ![c.sid] = MarkExited(sess, code, signal)]
           /\ activeCommands' = Deleted(c.id)
    /\ UNCHANGED connVars
    /\ UNCHANGED hostVars
    /\ UNCHANGED backoffVars

\* 'close' of the ChildProcess (or onExit of the pty) of command i.
ProcClose(i) ==
    /\ cmds[i].child \in {"exited", "failB"}
    /\ Quiet
    /\ LET c == [cmds[i] EXCEPT !.child = "closed", !.exit = "none",
                                !.timer = Cleared(@), !.yieldTimer = Cleared(@)]
           sess == sessions[c.sid]
           exit == cmds[i].exit
           bySignal == exit \in {"SIGTERM", "SIGKILL"}
           code == IF bySignal THEN "null" ELSE exit
           signal == IF bySignal THEN exit ELSE "undefined"
       IN  IF ~c.killed
           THEN /\ cmds' = [cmds EXCEPT ![i] = OnDone(c, IF code = "null" THEN "1" ELSE code)]
                /\ sessions' = [sessions EXCEPT ![c.sid] = MarkExited(sess, code, signal)]
                /\ activeCommands' = Deleted(c.id)
           ELSE /\ cmds' = [cmds EXCEPT ![i] = c]
                /\ UNCHANGED <<sessions, activeCommands>>
    /\ UNCHANGED connVars
    /\ UNCHANGED hostVars
    /\ UNCHANGED backoffVars

(***************************************************************************)
(* ProcessHandler: kill                                                    *)
(***************************************************************************)

\* 'message' of socket s carrying command_delivery{id, capability: 'process',
\* payload: {action: 'kill', sessionId}} for the session t.
DeliverKill(s, id, t) == Deliver(s, id, KillPayload(t))

\* A SIGKILL timer set by killSession for session t fires.
KillGraceFire(t) ==
    /\ sessions[t].killTimers > 0
    /\ Quiet
    /\ sessions' = [sessions EXCEPT ![t].killTimers = @ - 1]
    /\ cmds' = [cmds EXCEPT ![Owner(t)] =
                   IF sessions[t].pid # 0 /\ ~sessions[t].exited
                   THEN Signalled(@, "SIGKILL") ELSE @]
    /\ UNCHANGED activeCommands
    /\ UNCHANGED connVars
    /\ UNCHANGED hostVars
    /\ UNCHANGED backoffVars

\* The kill closure stored for command i: SIGTERM when the session has a pid
\* and has not exited.
KillClosure(c) ==
    IF sessions[c.sid].pid # 0 /\ ~sessions[c.sid].exited
    THEN Signalled(c, "SIGTERM") ELSE c

\* stop(): every stored kill closure runs, the map is cleared, the socket is
\* closed with the normal closure code.
Stop ==
    /\ started > 0
    /\ ~destroyed
    /\ Quiet
    /\ destroyed' = TRUE
    /\ Destroy
    /\ cmds' = [i \in 1..Len(cmds) |->
                  IF activeCommands[cmds[i].id] = i THEN KillClosure(cmds[i]) ELSE cmds[i]]
    /\ activeCommands' = [id \in CmdIds |-> 0]
    /\ IF ws # 0
       THEN sockets' = [sockets EXCEPT
                          ![ws].closeCode = IF sockets[ws].state = "OPEN" THEN NormalClosure ELSE @,
                          ![ws].state = IF @ = "CLOSED" THEN @ ELSE "CLOSING"]
       ELSE UNCHANGED sockets
    /\ ws' = 0
    /\ UNCHANGED <<started, urlValid, sessions>>
    /\ UNCHANGED hostVars

Init ==
    /\ started = 0
    /\ destroyed = FALSE
    /\ urlValid \in BOOLEAN
    /\ ws = 0
    /\ sockets = <<>>
    /\ attempt = 0
    /\ maxAttempts = NoCeiling
    /\ lastSchedule = "none"
    /\ reconnectTimer = NoTimer
    /\ leakedTimers = 0
    /\ activeCommands = [id \in CmdIds |-> 0]
    /\ cmds = <<>>
    /\ sessions = <<>>
    /\ brainMode = FALSE
    /\ files = PlainFiles

\* The steps of the commands delivered so far.
ExecStep ==
    \/ \E i \in 1..Len(cmds), ptyAvail \in BOOLEAN :
          \E sp \in SpawnKinds(ptyAvail) : ImportDone(i, sp)
    \/ \E i \in 1..Len(cmds) : ExecRegister(i)
    \/ \E i \in 1..Len(cmds) : TimeoutFire(i)
    \/ \E i \in 1..Len(cmds) : GraceFire(i)
    \/ \E i \in 1..Len(cmds) : YieldFire(i)
    \/ \E i \in 1..Len(cmds), how \in {"0", "1", "SIGTERM", "SIGKILL"} : ProcExit(i, how)
    \/ \E i \in 1..Len(cmds) : ProcError(i)
    \/ \E i \in 1..Len(cmds) : ProcClose(i)

Next ==
    \/ Start
    \/ Stop
    \/ ReconnectFire
    \/ \E s \in 1..Len(sockets) : SocketOpen(s)
    \/ \E s \in 1..Len(sockets) : SocketError(s)
    \/ \E s \in 1..Len(sockets) : SocketClose(s)
    \/ \E s \in 1..Len(sockets), id \in FreshIds, p \in Payloads :
          Len(cmds) < MaxCmds /\ Deliver(s, id, p)
    \/ ExecStep

Spec == Init /\ [][Next]_vars

\* Two deliveries on a connection that stays up until stop(): the socket
\* suffers no error and no close, so no reconnect happens.
NextPair ==
    \/ Start
    \/ Stop
    \/ \E s \in 1..Len(sockets) : SocketOpen(s)
    \/ \E s \in 1..Len(sockets), id \in FreshIds, p \in Payloads :
          Len(cmds) < MaxPair /\ Deliver(s, id, p)
    \/ ExecStep

InitPair == Init /\ urlValid = TRUE

SpecPair == InitPair /\ [][NextPair]_vars

\* One delivery on a connection that stays up, with the output of its process.
NextOutput ==
    \/ Start
    \/ \E s \in 1..Len(sockets) : SocketOpen(s)
    \/ \E s \in 1..Len(sockets), id \in FreshIds, p \in Payloads :
          cmds = <<>> /\ Deliver(s, id, p)
    \/ ExecStep
    \/ \E i \in 1..Len(cmds), n \in ChunkSizes : ProcData(i, n, "stdout")

SpecOutput == InitPair /\ [][NextOutput]_vars

\* One delivery on a connection that stays up, its process writing to both of
\* its streams.
Streams == {"stdout", "stderr"}
StreamSizes == {1, MaxOutputChars + 1}

NextStreams ==
    \/ Start
    \/ \E s \in 1..Len(sockets) : SocketOpen(s)
    \/ \E s \in 1..Len(sockets), id \in FreshIds, p \in Payloads :
          cmds = <<>> /\ Deliver(s, id, p)
    \/ ExecStep
    \/ \E i \in 1..Len(cmds), n \in StreamSizes, stream \in Streams : ProcData(i, n, stream)

SpecStreams == InitPair /\ [][NextStreams]_vars

\* One delivery on a connection that stays up, an exec or a legacy alias with
\* any of pty and yieldMs set.
LegacyPayloads ==
    ExecPayloads
    \cup { p \in { [Payload(cap) EXCEPT !.hasCommand = h, !.pty = y, !.yieldReq = q, !.sp = sp] :
                    cap \in {"actuator/shell", "shell"}, h \in BOOLEAN,
                    y \in BOOLEAN, q \in BOOLEAN, sp \in {"throw", "asyncfail", "ok"} } :
            ~p.hasCommand => p.sp = "ok" }

NextLegacy ==
    \/ Start
    \/ \E s \in 1..Len(sockets) : SocketOpen(s)
    \/ \E s \in 1..Len(sockets), id \in FreshIds, p \in LegacyPayloads :
          cmds = <<>> /\ Deliver(s, id, p)
    \/ ExecStep

SpecLegacy == InitPair /\ [][NextLegacy]_vars

\* One exec command whose payload sets background, yieldMs and pty in every
\* combination.
BackgroundPayloads ==
    { p \in { [Payload("exec") EXCEPT !.hasCommand = TRUE, !.background = b, !.pty = y,
                                      !.yieldReq = q, !.sp = sp] :
                 b \in BOOLEAN, y \in BOOLEAN, q \in BOOLEAN,
                 sp \in {"throw", "asyncfail", "ok"} } :
        p.pty => p.sp = "ok" }

NextBackground ==
    \/ Start
    \/ \E s \in 1..Len(sockets) : SocketOpen(s)
    \/ \E s \in 1..Len(sockets), id \in FreshIds, p \in BackgroundPayloads :
          cmds = <<>> /\ Deliver(s, id, p)
    \/ ExecStep

SpecBackground == InitPair /\ [][NextBackground]_vars

\* File commands on a connection that stays up: the root holds the file f with
\* one of FileContents and may hold a symbolic link to a directory outside.
FileContents == {<<>>, <<"a", "b">>, <<"a", "a">>}
FileSystems ==
    LET fss == {[PlainFiles EXCEPT ![RootPath \o <<"f">>] = File(c)] : c \in FileContents}
    IN  fss \cup {WithLink(fs) : fs \in fss}

AbsolutePath == <<"/", "etc", "p">>
ViaLinkPath == <<"ln", "p">>
NewPath == <<"d", "g">>
FilePaths == {InsidePath, OutsidePath, AbsolutePath, ViaLinkPath, NewPath, NoPath}

FilePayloads ==
    {[Payload("read") EXCEPT !.path = path] : path \in FilePaths}
    \cup {[Payload("write") EXCEPT !.path = path, !.newText = content] :
             path \in FilePaths, content \in {<<"a", "a">>, <<"b">>}}
    \cup {[Payload("edit") EXCEPT !.path = path, !.oldText = oldText, !.newText = newText] :
             path \in FilePaths, oldText \in {<<>>, <<"a">>, <<"a", "b">>, <<"c">>},
             newText \in {<<>>, <<"c">>}}

InitFiles ==
    /\ started = 0
    /\ destroyed = FALSE
    /\ urlValid = TRUE
    /\ ws = 0
    /\ sockets = <<>>
    /\ attempt = 0
    /\ maxAttempts = NoCeiling
    /\ lastSchedule = "none"
    /\ reconnectTimer = NoTimer
    /\ leakedTimers = 0
    /\ activeCommands = [id \in CmdIds |-> 0]
    /\ cmds = <<>>
    /\ sessions = <<>>
    /\ brainMode = FALSE
    /\ files \in FileSystems

NextFiles ==
    \/ Start
    \/ \E s \in 1..Len(sockets) : SocketOpen(s)
    \/ \E s \in 1..Len(sockets), id \in FreshIds, p \in FilePayloads :
          Len(cmds) < MaxFileCmds /\ Deliver(s, id, p)

SpecFiles == InitFiles /\ [][NextFiles]_vars

\* The ProcessRegistry on its own: addSession, markBackgrounded and markExited
\* called in any order, up to MaxSessions sessions.
RegistryAdd ==
    /\ Len(sessions) < MaxSessions
    /\ \E slug \in CreateSessionSlug(sessions) : sessions' = AddSession(sessions, slug)
    /\ UNCHANGED <<cmds, activeCommands>>
    /\ UNCHANGED connVars
    /\ UNCHANGED hostVars
    /\ UNCHANGED backoffVars

RegistryMarkBackgrounded(s) ==
    /\ sessions' = [sessions EXCEPT ![s] = MarkBackgrounded(@)]
    /\ UNCHANGED <<cmds, activeCommands>>
    /\ UNCHANGED connVars
    /\ UNCHANGED hostVars
    /\ UNCHANGED backoffVars

RegistryMarkExited(s) ==
    /\ sessions' = [sessions EXCEPT ![s] = MarkExited(@, "1", "undefined")]
    /\ UNCHANGED <<cmds, activeCommands>>
    /\ UNCHANGED connVars
    /\ UNCHANGED hostVars
    /\ UNCHANGED backoffVars

NextRegistry ==
    \/ RegistryAdd
    \/ \E s \in 1..Len(sessions) : RegistryMarkBackgrounded(s)
    \/ \E s \in 1..Len(sessions) : RegistryMarkExited(s)

SpecRegistry == Init /\ [][NextRegistry]_vars

\* The ProcessRegistry called by session id, with ids it has and ids it does
\* not have, on a table of up to MaxKeyed sessions.

\* A lookup that finds every record.
LookupAll(table, id) == 1..Len(table)

\* this.#sessions.get(id): the places of the record with the key (none or one).
Lookup(table, id) == {s \in 1..Len(table) : table[s].id = id}

\* `const session = this.#sessions.get(id); if (session) { ...; return true }
\* return false`: <<the table afterwards, the value returned>>.
Keyed(table, id, Update(_)) ==
    IF Lookup(table, id) = {}
    THEN <<table, FALSE>>
    ELSE LET s == CHOOSE s \in Lookup(table, id) : TRUE
         IN  <<[table EXCEPT ![s] = Update(table[s])], TRUE>>

\* markBackgrounded(id), markExited(id, exitCode, exitSignal), appendOutput(id, data)
RegistryMarkBackgroundedById(table, id) == Keyed(table, id, MarkBackgrounded)
RegistryMarkExitedById(table, id, code, signal) ==
    Keyed(table, id, LAMBDA x : MarkExited(x, code, signal))
RegistryAppendOutputById(table, id, n) ==
    Keyed(table, id, LAMBDA x : AppendOutput(x, n))

\* killSession(id): false without a record or a pid; process.kill either
\* delivers SIGTERM, and the SIGKILL timer is set, or throws.
RegistryKillById(table, id, delivered) ==
    IF \E s \in Lookup(table, id) : table[s].pid # 0
    THEN IF delivered
         THEN Keyed(table, id, LAMBDA x : [x EXCEPT !.killTimers = @ + 1])
         ELSE <<table, FALSE>>
    ELSE <<table, FALSE>>

\* addSession(command, cwd), with the one slug followed.
KeyedAdd ==
    /\ Len(sessions) < MaxKeyed
    /\ sessions' = AddSession(sessions, LeastSlug(sessions))
    /\ UNCHANGED <<cmds, activeCommands>>
    /\ UNCHANGED connVars
    /\ UNCHANGED hostVars
    /\ UNCHANGED backoffVars

\* `session.pid = proc.pid` of executeShell on the record of session s.
KeyedSpawn(s) ==
    /\ sessions[s].pid = 0
    /\ sessions' = [sessions EXCEPT ![s].pid = s, ![s].stdin = TRUE]
    /\ UNCHANGED <<cmds, activeCommands>>
    /\ UNCHANGED connVars
    /\ UNCHANGED hostVars
    /\ UNCHANGED backoffVars

KeyedMarkBackgrounded(id) ==
    /\ sessions' = RegistryMarkBackgroundedById(sessions, id)[1]
    /\ UNCHANGED <<cmds, activeCommands>>
    /\ UNCHANGED connVars
    /\ UNCHANGED hostVars
    /\ UNCHANGED backoffVars

KeyedMarkExited(id, code, signal) ==
    /\ sessions' = RegistryMarkExitedById(sessions, id, code, signal)[1]
    /\ UNCHANGED <<cmds, activeCommands>>
    /\ UNCHANGED connVars
    /\ UNCHANGED hostVars
    /\ UNCHANGED backoffVars

KeyedAppendOutput(id, n) ==
    /\ \A s \in Lookup(sessions, id) : Len(sessions[s].written) < MaxChunks
    /\ sessions' = RegistryAppendOutputById(sessions, id, n)[1]
    /\ UNCHANGED <<cmds, activeCommands>>
    /\ UNCHANGED connVars
    /\ UNCHANGED hostVars
    /\ UNCHANGED backoffVars

KeyedKill(id, delivered) ==
    /\ \A s \in Lookup(sessions, id) : sessions[s].killTimers < MaxKills
    /\ sessions' = RegistryKillById(sessions, id, delivered)[1]
    /\ UNCHANGED <<cmds, activeCommands>>
    /\ UNCHANGED connVars
    /\ UNCHANGED hostVars
    /\ UNCHANGED backoffVars

NextKeyed ==
    \/ KeyedAdd
    \/ \E s \in 1..Len(sessions) : KeyedSpawn(s)
    \/ \E id \in Slugs : KeyedMarkBackgrounded(id)
    \/ \E id \in Slugs : KeyedMarkExited(id, "0", "SIGTERM")
    \/ \E id \in Slugs : KeyedAppendOutput(id, 1)
    \/ \E id \in Slugs, delivered \in BOOLEAN : KeyedKill(id, delivered)

SpecKeyed == InitPair /\ [][NextKeyed]_vars

\* One delivery on a connection that stays up, followed by up to MaxKills
\* process kill requests for its session.
NextKill ==
    \/ Start
    \/ \E s \in 1..Len(sockets) : SocketOpen(s)
    \/ \E s \in 1..Len(sockets), id \in FreshIds, p \in Payloads :
          cmds = <<>> /\ Deliver(s, id, p)
    \/ ExecStep
    \/ \E s \in 1..Len(sockets), id \in FreshIds, t \in 1..Len(sessions) :
          Len(cmds) <= MaxKills /\ DeliverKill(s, id, t)
    \/ \E t \in 1..Len(sessions) : KillGraceFire(t)

SpecKill == InitPair /\ [][NextKill]_vars

\* A sessionId no session has: the least slug not in the table.
UnknownSession == LeastSlug(sessions)

\* The write and send-keys payloads a delivery is tried with: with and without
\* a sessionId, for a session of the table or for none, with and without data.
WritePayloads ==
    { p \in { [Payload("process") EXCEPT !.action = a, !.session = sid, !.items = n] :
                 a \in {"write", "send-keys"},
                 sid \in {0, UnknownSession} \cup {sessions[t].id : t \in 1..Len(sessions)},
                 n \in 0..2 } :
        p.action = "write" => p.items <= 1 }

\* One delivery on a connection that stays up, followed by up to MaxWrites
\* process write or send-keys requests.
NextWrite ==
    \/ Start
    \/ \E s \in 1..Len(sockets) : SocketOpen(s)
    \/ \E s \in 1..Len(sockets), id \in FreshIds, p \in Payloads :
          cmds = <<>> /\ Deliver(s, id, p)
    \/ ExecStep
    \/ \E s \in 1..Len(sockets), id \in FreshIds, p \in WritePayloads :
          cmds # <<>> /\ Len(cmds) <= MaxWrites /\ Deliver(s, id, p)

SpecWrite == InitPair /\ [][NextWrite]_vars

\* The payloads that lack a required field: no payload or a null one under a
\* recognised capability, an exec without command, a process payload without
\* action, with an unknown action, or without the sessionId its action needs.
BadPayloads ==
    {[Payload(cap) EXCEPT !.body = b] : cap \in Recognised, b \in {"null", "absent"}}
    \cup {Payload(cap) : cap \in {"exec", "actuator/shell", "shell"}}
    \cup {[Payload("process") EXCEPT !.action = a, !.items = 1] :
             a \in {"none", "restart", "poll", "log", "write", "send-keys", "kill"}}

\* Up to MaxBad deliveries, each with a payload that lacks a required field,
\* on a connection that stays up.
NextPayload ==
    \/ Start
    \/ \E s \in 1..Len(sockets) : SocketOpen(s)
    \/ \E s \in 1..Len(sockets), id \in FreshIds, p \in BadPayloads :
          Len(cmds) < MaxBad /\ Deliver(s, id, p)

SpecPayload == InitPair /\ [][NextPayload]_vars

\* The ts values a ping is tried with.
Timestamps == {1, 2}

RECURSIVE PingsReceived(_)
PingsReceived(socks) ==
    IF socks = <<>> THEN 0 ELSE Len(Head(socks).pings) + PingsReceived(Tail(socks))

\* A ping handler that sends nothing.
PingUnanswered(s, ts) ==
    /\ sockets[s].state \in {"OPEN", "CLOSING"}
    /\ Quiet
    /\ PingsReceived(sockets) < MaxPings
    /\ sockets' = [sockets EXCEPT ![s].pings = Append(@, ts)]
    /\ UNCHANGED <<started, destroyed, urlValid, ws>>
    /\ UNCHANGED backoffVars
    /\ UNCHANGED execVars
    /\ UNCHANGED hostVars

\* 'message' of socket s carrying ping{ts}: #handleMessage calls
\* #send({type: 'pong', ts}), which sends on #ws if that is open.  A socket
\* still delivers messages while it is closing.
Ping(s, ts) ==
    /\ sockets[s].state \in {"OPEN", "CLOSING"}
    /\ Quiet
    /\ PingsReceived(sockets) < MaxPings
    /\ LET received == [sockets EXCEPT ![s].pings = Append(@, ts)]
       IN  sockets' = IF CanSend
                      THEN [received EXCEPT ![ws].pongs = Append(@, ts)]
                      ELSE received
    /\ UNCHANGED <<started, destroyed, urlValid, ws>>
    /\ UNCHANGED backoffVars
    /\ UNCHANGED execVars
    /\ UNCHANGED hostVars

\* The connection with up to MaxPings pings from the broker.
NextPing ==
    \/ Start
    \/ Stop
    \/ ReconnectFire
    \/ \E s \in 1..Len(sockets) : SocketOpen(s)
    \/ \E s \in 1..Len(sockets) : SocketError(s)
    \/ \E s \in 1..Len(sockets) : SocketClose(s)
    \/ \E s \in 1..Len(sockets), ts \in Timestamps : Ping(s, ts)

SpecPing == Init /\ [][NextPing]_vars

\* One plain exec delivery and the pings of the broker on a connection that
\* closes and reopens up to MaxSendSock sockets: everything the agent sends.
SendPayloads == {[Payload("exec") EXCEPT !.hasCommand = TRUE]}

NextSend ==
    \/ Start
    \/ Len(sockets) < MaxSendSock /\ ReconnectFire
    \/ \E s \in 1..Len(sockets) : SocketOpen(s)
    \/ \E s \in 1..Len(sockets) : SocketError(s)
    \/ \E s \in 1..Len(sockets) : SocketClose(s)
    \/ \E s \in 1..Len(sockets), ts \in Timestamps : Ping(s, ts)
    \/ \E s \in 1..Len(sockets), id \in FreshIds, p \in SendPayloads :
          cmds = <<>> /\ Deliver(s, id, p)
    \/ \E i \in 1..Len(cmds) : ExecRegister(i)
    \/ \E i \in 1..Len(cmds) : ProcExit(i, "0")
    \/ \E i \in 1..Len(cmds) : ProcClose(i)

SpecSend == InitPair /\ [][NextSend]_vars

\* The payloads under a capability name #handleCommand has no case for.
UnknownPayloads ==
    {[Payload("bogus") EXCEPT !.body = b, !.hasCommand = h] :
        b \in {"object", "null", "absent"}, h \in BOOLEAN}

\* One delivery on a connection that stays up, followed by up to MaxUnknown
\* deliveries under an unknown capability name.
NextUnknown ==
    \/ Start
    \/ \E s \in 1..Len(sockets) : SocketOpen(s)
    \/ \E s \in 1..Len(sockets), id \in FreshIds, p \in Payloads :
          cmds = <<>> /\ Deliver(s, id, p)
    \/ ExecStep
    \/ \E s \in 1..Len(sockets), id \in FreshIds, p \in UnknownPayloads :
          cmds # <<>> /\ Len(cmds) <= MaxUnknown /\ Deliver(s, id, p)

SpecUnknown == InitPair /\ [][NextUnknown]_vars

\* The payloads a brain-mode actuator is tried with: every payload of the other
\* specifications, and those that lack a required field.
BrainPayloads ==
    Payloads \cup BadPayloads \cup UnknownPayloads
    \cup {[Payload("process") EXCEPT !.action = "kill", !.session = 1]}

\* An actuator configured with brainMode, on a connection that closes and
\* reopens, with up to MaxBrain deliveries.
InitBrain ==
    /\ started = 0
    /\ destroyed = FALSE
    /\ urlValid = TRUE
    /\ ws = 0
    /\ sockets = <<>>
    /\ attempt = 0
    /\ maxAttempts = NoCeiling
    /\ lastSchedule = "none"
    /\ reconnectTimer = NoTimer
    /\ leakedTimers = 0
    /\ activeCommands = [id \in CmdIds |-> 0]
    /\ cmds = <<>>
    /\ sessions = <<>>
    /\ brainMode = TRUE
    /\ files = PlainFiles

NextBrain ==
    \/ Start
    \/ Stop
    \/ ReconnectFire
    \/ \E s \in 1..Len(sockets) : SocketOpen(s)
    \/ \E s \in 1..Len(sockets) : SocketClose(s)
    \/ \E s \in 1..Len(sockets), id \in FreshIds, p \in BrainPayloads :
          Len(cmds) < MaxBrain /\ Deliver(s, id, p)

SpecBrain == InitBrain /\ [][NextBrain]_vars

\* The timeouts, in seconds, an exec payload is tried with.
TimeoutRequests ==
    {-1, 0, 1, DefaultTimeout - 1, DefaultTimeout, DefaultTimeout + 1,
     MaxTimeout - 1, MaxTimeout, MaxTimeout + 1, 2 * MaxTimeout, 1000 * MaxTimeout}

\* Exec and legacy payloads with a command, with and without a timeout.
TimedPayloads ==
    { p \in { [Payload(cap) EXCEPT !.hasCommand = TRUE, !.pty = y, !.yieldReq = q, !.sp = sp,
                                   !.hasTimeout = g, !.timeout = n] :
                 cap \in {"exec", "shell"}, y \in BOOLEAN, q \in BOOLEAN,
                 sp \in {"throw", "asyncfail", "ok"},
                 g \in BOOLEAN, n \in TimeoutRequests } :
        /\ p.cap # "exec" => ~p.pty /\ ~p.yieldReq
        /\ p.pty => p.sp = "ok"
        /\ ~p.hasTimeout => p.timeout = 0 }

\* One exec delivery with a timeout request, on a connection that stays up.
NextTimeout ==
    \/ Start
    \/ \E s \in 1..Len(sockets) : SocketOpen(s)
    \/ \E s \in 1..Len(sockets), id \in FreshIds, p \in TimedPayloads :
          cmds = <<>> /\ Deliver(s, id, p)
    \/ ExecStep

SpecTimeout == InitPair /\ [][NextTimeout]_vars

\* The connection on its own, with no command delivered.
NextConn ==
    \/ Start
    \/ Stop
    \/ ReconnectFire
    \/ \E s \in 1..Len(sockets) : SocketOpen(s)
    \/ \E s \in 1..Len(sockets) : SocketError(s)
    \/ \E s \in 1..Len(sockets) : SocketClose(s)

SpecConn == Init /\ [][NextConn]_vars

\* The ReconnectManager on its own: schedule(), reset() and the timer, in any
\* order, up to BackoffCap consecutive accepted schedule() calls.
BackoffSchedule ==
    /\ attempt < BackoffCap
    /\ (reconnectTimer.state = "pending" => leakedTimers < MaxLeaked)
    /\ \E j \in Jitter : Schedule(j, reconnectTimer, leakedTimers)
    /\ UNCHANGED connVars
    /\ UNCHANGED hostVars
    /\ UNCHANGED execVars

BackoffReset ==
    /\ Reset
    /\ UNCHANGED connVars
    /\ UNCHANGED hostVars
    /\ UNCHANGED execVars

BackoffFire ==
    /\ \E leakedOne \in BOOLEAN :
        IF leakedOne
        THEN leakedTimers > 0 /\ leakedTimers' = leakedTimers - 1 /\ UNCHANGED reconnectTimer
        ELSE reconnectTimer.state = "pending" /\ reconnectTimer' = FiredTimer /\ UNCHANGED leakedTimers
    /\ UNCHANGED <<attempt, maxAttempts, lastSchedule>>
    /\ UNCHANGED connVars
    /\ UNCHANGED hostVars
    /\ UNCHANGED execVars

NextBackoff == BackoffSchedule \/ BackoffReset \/ BackoffFire

SpecBackoff == Init /\ [][NextBackoff]_vars

\* The ReconnectManager constructed with an attempt ceiling (maxAttempts).
InitCeiling ==
    /\ started = 0
    /\ destroyed = FALSE
    /\ urlValid \in BOOLEAN
    /\ ws = 0
    /\ sockets = <<>>
    /\ attempt = 0
    /\ maxAttempts \in 0..MaxCeiling
    /\ lastSchedule = "none"
    /\ reconnectTimer = NoTimer
    /\ leakedTimers = 0
    /\ activeCommands = [id \in CmdIds |-> 0]
    /\ cmds = <<>>
    /\ sessions = <<>>
    /\ brainMode = FALSE
    /\ files = PlainFiles

SpecCeiling == InitCeiling /\ [][NextBackoff]_vars

\* The timers and queued continuations of the event loop run when they are due:
\* a pending hard timeout fires, a queued 'error' is emitted, the node-pty
\* import settles, the continuation of an await runs.  A child process may run
\* for ever, so its exit is under no fairness.
Fairness ==
    \A i \in 1..MaxCmds :
        /\ WF_vars(i <= Len(cmds) /\ TimeoutFire(i))
        /\ WF_vars(i <= Len(cmds) /\ ProcError(i))
        /\ WF_vars(i <= Len(cmds) /\ ExecRegister(i))
        /\ WF_vars(i <= Len(cmds) /\ \E sp \in SpawnKinds(FALSE) : ImportDone(i, sp))

LiveSpec == Spec /\ Fairness

\* The connection on its own with a reconnect timer that fires once it is
\* pending: setTimeout callbacks run.
LiveConn == SpecConn /\ WF_vars(ReconnectFire)

(***************************************************************************)
(* Properties                                                              *)
(***************************************************************************)

Sess(i) == sessions[cmds[i].sid]
IsExec(i) == cmds[i].sid # 0
Terminal(c) == {k \in 1..Len(c.outcomes) : c.outcomes[k] \in {"done", "error"}}
TerminalSent(c) == \E k \in 1..Len(c.results) : c.results[k] \in {"completed", "failed"}
InFlight(i) == IsExec(i) /\ Terminal(cmds[i]) = {}

TimeoutStep(i) == cmds[i].timer = "pending" /\ cmds'[i].timer = "fired"
GraceStep(i) == cmds[i].graceTimer = "pending" /\ cmds'[i].graceTimer = "fired"
YieldStep(i) == cmds[i].yieldTimer = "pending" /\ cmds'[i].yieldTimer = "fired"
StopStep == ~destroyed /\ destroyed'
OpenStep(s) == sockets[s].state = "CONNECTING" /\ sockets'[s].state = "OPEN"
ErrorStep(s) ==
    /\ sockets[s].state \in {"CONNECTING", "OPEN"}
    /\ sockets'[s].state = "CLOSING"
    /\ ~StopStep
CloseStep(s) == sockets[s].state # "CLOSED" /\ sockets'[s].state = "CLOSED"

\* C1: every executeShell invocation invokes at most one terminal outcome
\* callback (onDone or onError), whatever the order of 'close', 'error', the
\* hard timeout and the yield timer.
C1_AtMostOneTerminal ==
    \A i \in 1..Len(cmds) : Cardinality(Terminal(cmds[i])) <= 1

\* C2: every command_delivery, of any capability, is answered by a terminal
\* command_result (completed or failed) if the socket stays open: a command
\* that stops being pending while the socket is open (answered by its
\* delivery handler, or its terminal outcome reported) has a terminal result
\* sent, and a pending command eventually has one sent unless the socket
\* stops being open.
Pending(i) == i <= Len(cmds) /\ IsExec(i) /\ Terminal(cmds[i]) = {}

C3_AtMostOneActivePerId ==
    \A i, k \in 1..Len(cmds) :
        (i # k /\ cmds[i].id = cmds[k].id) => ~(Alive(cmds[i]) /\ Alive(cmds[k]))

\* C4: when the hard timeout expires while the process runs, SIGTERM is sent
\* to it, and when the 5-second grace timer ends with the process still
\* running, SIGKILL is sent to it.
C4_Escalation ==
    [][\A i \in 1..Len(cmds) :
          /\ (TimeoutStep(i) /\ Alive(cmds[i])) => "SIGTERM" \in cmds'[i].sigs
          /\ (GraceStep(i) /\ Alive(cmds[i])) => "SIGKILL" \in cmds'[i].sigs]_vars

\* C5 as stated: once the yield timer has fired with the process running and
\* no timeout, the session is backgrounded, a 'running' result has been sent,
\* and when the terminal outcome is reported the messages of the command are
\* exactly 'running' then the terminal one.
C5_Original ==
    \A i \in 1..Len(cmds) :
        "yield" \in {cmds[i].outcomes[k] : k \in 1..Len(cmds[i].outcomes)} =>
            /\ Sess(i).backgrounded
            /\ Len(cmds[i].results) >= 1 /\ cmds[i].results[1] = "running"
            /\ Terminal(cmds[i]) # {} =>
                 /\ Len(cmds[i].results) = 2
                 /\ cmds[i].results[2] \in {"completed", "failed"}

\* C5 amended: when the yield timer fires with the process running and no
\* timeout, the session is marked backgrounded, the process is not signalled
\* and, if the socket is open, one 'running' result with the pid is sent; the
\* invocation then reports exactly one terminal outcome at most, sent if the
\* socket is open at that moment: at most two messages, 'running' before the
\* terminal one and never after it, exactly those two when the socket was
\* open at both moments.
C5_YieldStep(i) ==
    (YieldStep(i) /\ ~cmds[i].killed /\ ~Sess(i).exited) =>
        /\ sessions'[cmds[i].sid].backgrounded
        /\ sessions'[cmds[i].sid].pid # 0
        /\ cmds'[i].sigs = cmds[i].sigs
        /\ cmds'[i].outcomes = <<"yield">>
        /\ cmds'[i].results = (IF CanSend THEN <<"running">> ELSE <<>>)

C5_TerminalStep(i) ==
    (Len(cmds[i].outcomes) >= 1 /\ cmds[i].outcomes[1] = "yield"
      /\ cmds'[i].outcomes # cmds[i].outcomes) =>
        /\ cmds[i].outcomes = <<"yield">>
        /\ \E o \in {"done", "error"} : cmds'[i].outcomes = <<"yield", o>>
        /\ \E r \in {"completed", "failed"} :
             cmds'[i].results = (IF CanSend THEN Append(cmds[i].results, r)
                                 ELSE cmds[i].results)

C5_YieldThenTerminal ==
    /\ [][\A i \in 1..Len(cmds) : C5_YieldStep(i) /\ C5_TerminalStep(i)]_vars
    /\ [](\A i \in 1..Len(cmds) :
            /\ \A k \in 2..Len(cmds[i].outcomes) : cmds[i].outcomes[k] # "yield"
            /\ \A k \in 2..Len(cmds[i].results) : cmds[i].results[k] # "running"
            /\ IsExec(i) => Len(cmds[i].results) <= Len(cmds[i].outcomes))

C5_Witness ==
    \E i \in 1..Len(cmds) :
        /\ cmds[i].outcomes = <<"yield", "done">>
        /\ cmds[i].results = <<"running", "completed">>

\* C6: stop() sends SIGTERM to the running process of every in-flight exec
\* command, and the in-flight map is empty from then on.
C6_StopCancelsAll ==
    /\ [][StopStep =>
            \A i \in 1..Len(cmds) :
                (InFlight(i) /\ Alive(cmds[i])) => "SIGTERM" \in cmds'[i].sigs]_vars
    /\ [](destroyed => \A id \in CmdIds : activeCommands[id] = 0)

\* C7: once stop() has been called no reconnect timer is pending, #ws is
\* null, no socket is created any more (start() included), destroyed stays
\* set, and the socket that was open at stop() is closing with code 1000.
C7_NoReconnectAfterStop ==
    /\ [](destroyed => /\ reconnectTimer.state # "pending"
                       /\ leakedTimers = 0
                       /\ ws = 0)
    /\ [][destroyed => (destroyed' /\ Len(sockets') = Len(sockets))]_vars
    /\ [][(StopStep /\ ws # 0 /\ sockets[ws].state = "OPEN") =>
            /\ sockets'[ws].state = "CLOSING"
            /\ sockets'[ws].closeCode = NormalClosure]_vars

C7_Witness ==
    /\ destroyed
    /\ started = 2
    /\ \E s \in 1..Len(sockets) :
        sockets[s].state = "CLOSED" /\ sockets[s].closeCode = NormalClosure

\* C8 as stated: on a close event and on an error event of the socket, when
\* the agent is not shutting down, #ws becomes null and a reconnect is
\* scheduled.
C8_Original ==
    [][\A s \in 1..Len(sockets) :
          ((CloseStep(s) \/ ErrorStep(s)) /\ ~destroyed) =>
              (ws' = 0 /\ reconnectTimer'.state = "pending")]_vars

\* C8 amended: on a close event of the socket, when the agent is not shutting
\* down, #ws becomes null and a reconnect is scheduled with the next attempt
\* number; an error event is only logged and changes neither #ws nor the
\* backoff state (the close event that follows it schedules the reconnect).
C8_CloseSchedulesReconnect ==
    [][\A s \in 1..Len(sockets) :
          /\ (CloseStep(s) /\ ~destroyed) =>
                /\ ws' = 0
                /\ reconnectTimer'.state = "pending"
                /\ attempt' = attempt + 1
          /\ ErrorStep(s) => UNCHANGED <<ws, attempt, reconnectTimer, leakedTimers>>]_vars

C8_Witness ==
    /\ ~destroyed
    /\ ws = 0
    /\ reconnectTimer.state = "pending"
    /\ \E s \in 1..Len(sockets) : sockets[s].state = "CLOSED"

\* C9: a socket open event sets the attempt counter to zero, the counter is
\* zero while the current socket is open, and the reconnect scheduled when an
\* open socket closes has the delay of attempt 0: base plus jitter.
C9_OpenResetsBackoff ==
    /\ [](ws # 0 /\ sockets[ws].state = "OPEN" => attempt = 0)
    /\ [][\A s \in 1..Len(sockets) :
            /\ OpenStep(s) => attempt' = 0
            /\ (CloseStep(s) /\ sockets[s].state = "OPEN" /\ ~destroyed) =>
                  /\ reconnectTimer'.delay >= BaseMs
                  /\ reconnectTimer'.delay < BaseMs + JitterMs
                  /\ attempt' = 1]_vars

C9_Witness ==
    /\ Len(sockets) = 2
    /\ sockets[1].state = "CLOSED"
    /\ sockets[2].state = "CLOSED"
    /\ reconnectTimer.state = "pending"
    /\ reconnectTimer.delay < 2 * BaseMs

\* C10: every delay schedule() computes is min(1000 * 2^attempt + jitter,
\* 30000) for a jitter in [0, 1000): it never exceeds 30000, is at least
\* 1000 * 2^attempt below the cap, a bound that grows strictly from one
\* attempt to the next, and is exactly 30000 from the 7th consecutive attempt.
C10_DelayFormula ==
    [][attempt' = attempt + 1 =>
        LET d == reconnectTimer'.delay
            lower == BaseMs * Pow2(attempt)
        IN  /\ reconnectTimer'.state = "pending"
            /\ \E j \in 0..(JitterMs - 1) : d = Min(lower + j, MaxMs)
            /\ d <= MaxMs
            /\ d >= Min(lower, MaxMs)
            /\ (attempt >= 1 /\ lower <= MaxMs) => BaseMs * Pow2(attempt - 1) < lower
            /\ attempt >= 6 => d = MaxMs]_vars

C10_Witness ==
    /\ attempt = 7
    /\ reconnectTimer.state = "pending"
    /\ reconnectTimer.delay = MaxMs

\* C11: the attempt counter grows by exactly one on every accepted
\* schedule() and is zero after reset(); with a ceiling N the counter never
\* passes N (N calls accepted between resets), a call is refused exactly when
\* the counter is N, and a refused call creates no timer and leaves the
\* counter alone.
C11_CeilingRefuses ==
    /\ [](attempt <= maxAttempts)
    /\ [](lastSchedule = "refused" => attempt = maxAttempts)
    /\ [][/\ attempt' # attempt =>
               \/ /\ attempt' = attempt + 1
                  /\ attempt < maxAttempts
                  /\ lastSchedule' = "accepted"
                  /\ reconnectTimer'.state = "pending"
               \/ attempt' = 0 /\ lastSchedule' = "none"
          /\ (lastSchedule' = "accepted" /\ lastSchedule # "accepted") =>
               attempt' = attempt + 1
          /\ (lastSchedule' = "refused" /\ lastSchedule # "refused") =>
               /\ attempt = maxAttempts
               /\ UNCHANGED <<attempt, reconnectTimer, leakedTimers>>
          /\ lastSchedule' = "none" => attempt' = 0]_vars

C11_Witness ==
    /\ maxAttempts = 2
    /\ attempt = 2
    /\ lastSchedule = "refused"
    /\ reconnectTimer.state = "pending"

\* C12: the aggregated buffer of every session holds at most 200000
\* characters, whatever chunks were appended.
C12_AggregatedBounded ==
    \A s \in 1..Len(sessions) : StrLen(sessions[s].aggregated) <= MaxOutputChars

C12_Witness ==
    \E s \in 1..Len(sessions) :
        /\ StrLen(sessions[s].aggregated) = MaxOutputChars
        /\ Len(sessions[s].written) >= 2
        /\ sessions[s].written[1] + sessions[s].written[2] > MaxOutputChars

\* The total length of the chunks whose sizes are w.
RECURSIVE Total(_)
Total(w) == IF w = <<>> THEN 0 ELSE Head(w) + Total(Tail(w))

\* s is made of the last characters of the concatenation of the chunks whose
\* sizes are w: it ends with the end of the last chunk and runs backwards
\* without a gap.
IsStreamSuffix(s, w) ==
    s # <<>> =>
        /\ s[Len(s)][1] = Len(w)
        /\ \A j \in 1..Len(s) :
              /\ s[j][1] \in 1..Len(w)
              /\ s[j][3] = w[s[j][1]]
              /\ 1 <= s[j][2] /\ s[j][2] <= s[j][3]
              /\ j > 1 => (s[j][2] = 1 /\ s[j][1] = s[j - 1][1] + 1)

\* C13: aggregated is the trailing min(capacity, total length) characters of
\* the in-order concatenation of all the chunks appended so far.
C13_SlidingWindow ==
    \A s \in 1..Len(sessions) :
        /\ StrLen(sessions[s].aggregated) = Min(MaxOutputChars, Total(sessions[s].written))
        /\ IsStreamSuffix(sessions[s].aggregated, sessions[s].written)

C13_Witness ==
    \E s \in 1..Len(sessions) :
        /\ Len(sessions[s].written) = 3
        /\ Total(sessions[s].written) > MaxOutputChars
        /\ Len(sessions[s].aggregated) = 3
        /\ sessions[s].aggregated[1][2] > 1

\* tl is a suffix of the string s.
IsSuffixOf(tl, s) ==
    tl # <<>> =>
        /\ Len(tl) <= Len(s)
        /\ LET off == Len(s) - Len(tl)
           IN  /\ \A j \in 2..Len(tl) : tl[j] = s[off + j]
               /\ tl[1][1] = s[off + 1][1]
               /\ tl[1][3] = s[off + 1][3]
               /\ s[off + 1][2] <= tl[1][2] /\ tl[1][2] <= tl[1][3]

\* C14: the tail of every session is a suffix of its aggregated buffer, holds
\* at most 4000 characters, and is the whole buffer when that has at most
\* 4000 characters.
C14_TailIsSuffix ==
    \A s \in 1..Len(sessions) :
        /\ IsSuffixOf(sessions[s].tail, sessions[s].aggregated)
        /\ StrLen(sessions[s].tail) <= TailChars
        /\ StrLen(sessions[s].aggregated) <= TailChars =>
              sessions[s].tail = sessions[s].aggregated

C14_Witness ==
    \E s \in 1..Len(sessions) :
        /\ StrLen(sessions[s].aggregated) > TailChars
        /\ StrLen(sessions[s].tail) = TailChars
        /\ Len(sessions[s].tail) = 2

\* C15: a session whose exited flag is set has no input handle, whichever
\* path marked it exited.
C15_ExitedHasNoStdin ==
    \A s \in 1..Len(sessions) : sessions[s].exited => ~sessions[s].stdin

C15_Witness ==
    \E i \in 1..Len(cmds) :
        /\ IsExec(i)
        /\ cmds[i].timer = "fired"
        /\ Sess(i).pid # 0
        /\ Sess(i).exited
        /\ ~Sess(i).stdin

\* C16: once a session is marked exited its aggregated buffer and its tail
\* never change again.
C16_NoOutputAfterExit ==
    [][\A s \in 1..Len(sessions) :
          sessions[s].exited =>
              /\ sessions'[s].aggregated = sessions[s].aggregated
              /\ sessions'[s].tail = sessions[s].tail]_vars

\* C17: the identifiers of the sessions in the table are pairwise distinct,
\* and every addSession adds exactly one record with an identifier no record
\* had, leaving every other record as it was.
C17_UniqueSessionIds ==
    /\ [](\A s, u \in 1..Len(sessions) : s # u => sessions[s].id # sessions[u].id)
    /\ [][\A s \in 1..Len(sessions) : sessions'[s].id = sessions[s].id]_vars
    /\ [][(\E s \in 1..Len(sessions') :
              sessions'[s] = [NewSession EXCEPT !.id = sessions'[s].id]
              /\ (s > Len(sessions) \/ sessions'[s] # sessions[s])) =>
            /\ Len(sessions') = Len(sessions) + 1
            /\ \A s \in 1..Len(sessions) :
                  /\ sessions'[s] = sessions[s]
                  /\ sessions'[Len(sessions')].id # sessions[s].id]_vars

C17_Witness ==
    /\ Len(sessions) = MaxSessions
    /\ sessions[1].id > sessions[2].id
    /\ sessions[1].exited

\* The spawn of command i failed and the failure has been reported: the first
\* outcome is an error that the timeout did not produce.
SpawnFailed(i) ==
    /\ IsExec(i)
    /\ cmds[i].outcomes # <<>>
    /\ cmds[i].outcomes[1] = "error"
    /\ cmds[i].timer # "fired"

\* C18 as stated: the session is in the registry before the spawn, and after
\* a failed spawn it is there with exited set and a non-zero exit code, an
\* error outcome is reported, and neither the timeout timer nor the yield
\* timer was started.
C18_Original ==
    \A i \in 1..Len(cmds) :
        /\ IsExec(i) => cmds[i].sid \in 1..Len(sessions)
        /\ SpawnFailed(i) =>
              /\ Sess(i).exited
              /\ Sess(i).exitCode \notin {"0", "unset"}
              /\ cmds[i].timer = "none"
              /\ cmds[i].yieldTimer = "none"

\* C18 amended: the session is in the registry before the spawn, and after a
\* failed spawn it is there with exited set and a non-zero exit code and an
\* error outcome is reported first.  When the spawn throws, no timer was
\* started; when it fails with an 'error' event, the timeout timer (and the
\* yield timer, if asked for) was started and is cleared by the 'error'
\* handler before it can fire.  No SIGKILL timer exists in either case.
C18_SpawnFailure ==
    \A i \in 1..Len(cmds) :
        /\ IsExec(i) => cmds[i].sid \in 1..Len(sessions)
        /\ cmds[i].child = "failA" =>
              /\ cmds[i].timer = "pending"
              /\ cmds[i].yieldTimer = (IF cmds[i].yieldReq THEN "pending" ELSE "none")
        /\ SpawnFailed(i) =>
              /\ Sess(i).exited
              /\ Sess(i).exitCode \notin {"0", "unset"}
              /\ cmds[i].graceTimer = "none"
              /\ IF cmds[i].child = "none"
                 THEN cmds[i].timer = "none" /\ cmds[i].yieldTimer = "none"
                 ELSE /\ cmds[i].timer = "cleared"
                      /\ cmds[i].yieldTimer = (IF cmds[i].yieldReq THEN "cleared" ELSE "none")

C18_Witness ==
    \E i \in 1..Len(cmds) :
        /\ SpawnFailed(i)
        /\ cmds[i].child = "failB"
        /\ cmds[i].yieldTimer = "cleared"
        /\ Sess(i).exited

KillGraceStep(t) == sessions'[t].killTimers = sessions[t].killTimers - 1
KillStep(t) ==
    /\ Len(cmds') = Len(cmds) + 1
    /\ cmds'[Len(cmds')].action = "kill"
    /\ cmds'[Len(cmds')].target = t

\* C19: when a SIGKILL timer of the registry's kill ends, SIGKILL is sent to
\* the process if it has not terminated, and no signal is sent if it has.
C19_KillEscalation ==
    [][\A t \in 1..Len(sessions) :
          KillGraceStep(t) =>
              IF Alive(cmds[Owner(t)])
              THEN "SIGKILL" \in cmds'[Owner(t)].sigs
              ELSE cmds'[Owner(t)].sigs = cmds[Owner(t)].sigs]_vars

\* C20: the Session Controller's kill answers with a failure, sets no SIGKILL
\* timer and leaves the session and its process alone when the session has
\* exited, has no pid, or SIGTERM cannot be delivered; it answers with success
\* exactly when SIGTERM was delivered, and then one SIGKILL timer is set.
C20_KillOutcome ==
    [][\A t \in 1..Len(sessions) :
          KillStep(t) =>
              LET o == Owner(t)
                  answer == cmds'[Len(cmds')].results
              IN  IF ~sessions[t].exited /\ sessions[t].pid # 0 /\ Alive(cmds[o])
                  THEN /\ answer = <<"completed">>
                       /\ "SIGTERM" \in cmds'[o].sigs
                       /\ sessions' = [sessions EXCEPT ![t].killTimers = @ + 1]
                  ELSE /\ answer = <<"failed">>
                       /\ sessions' = sessions
                       /\ cmds'[o] = cmds[o]]_vars

C20_Witness ==
    /\ Len(cmds) = 3
    /\ cmds[2].target = 1 /\ cmds[2].results = <<"completed">>
    /\ cmds[3].target = 1 /\ cmds[3].results = <<"failed">>
    /\ Sess(1).exited
    /\ Alive(cmds[1])

\* A write or send-keys request that found session t is handled.
WriteStep(t) ==
    /\ Len(cmds') = Len(cmds) + 1
    /\ cmds'[Len(cmds')].action \in {"write", "send-keys"}
    /\ cmds'[Len(cmds')].target = t

\* C21: a write or send-keys request for a session that is marked exited or
\* has no input handle is answered with a failure and writes nothing, and
\* once a session is marked exited no write reaches the input handle of its
\* process any more.
C21_NoWriteAfterExit ==
    /\ [][\A t \in 1..Len(sessions) :
            (WriteStep(t) /\ (sessions[t].exited \/ ~sessions[t].stdin)) =>
                /\ cmds'[Len(cmds')].results = <<"failed">>
                /\ cmds'[Owner(t)].stdinWrites = cmds[Owner(t)].stdinWrites]_vars
    /\ [][\A i \in 1..Len(cmds) :
            (IsExec(i) /\ Sess(i).exited) => cmds'[i].stdinWrites = cmds[i].stdinWrites]_vars

C21_Witness ==
    /\ Len(cmds) = 3
    /\ cmds[2].action = "write" /\ cmds[2].results = <<"completed">>
    /\ cmds[3].action = "send-keys" /\ cmds[3].target = 1 /\ cmds[3].results = <<"failed">>
    /\ cmds[1].stdinWrites = 1
    /\ Sess(1).exited
    /\ Alive(cmds[1])

\* C22: every delivery whose payload lacks a required field is answered by
\* exactly one failed result with an error text, its handler ends without an
\* exception, and no session and no in-flight entry is created.
C22_MalformedFails ==
    /\ \A i \in 1..Len(cmds) :
          /\ cmds[i].pc # "rejected"
          /\ cmds[i].results = <<"failed">>
          /\ cmds[i].error # "none"
    /\ sessions = <<>>
    /\ \A id \in CmdIds : activeCommands[id] = 0

\* A ping is handled on socket s.
PingStep(s) == Len(sockets'[s].pings) = Len(sockets[s].pings) + 1

\* C23: handling a ping received on the open socket sends one pong with the
\* ts of that ping on that socket, in the same step, and changes nothing
\* else; the pongs sent on a socket are, in order, the ts of the pings it
\* received while open.
C23_PingPong ==
    /\ [][\A s \in 1..Len(sockets) :
            (PingStep(s) /\ sockets[s].state = "OPEN") =>
                /\ sockets' = [sockets EXCEPT
                       ![s].pings = sockets'[s].pings,
                       ![s].pongs = Append(@, sockets'[s].pings[Len(sockets'[s].pings)])]
                /\ UNCHANGED <<started, destroyed, urlValid, ws>>
                /\ UNCHANGED <<backoffVars, execVars, hostVars>>]_vars
    /\ [](\A s \in 1..Len(sockets) :
            /\ Len(sockets[s].pongs) <= Len(sockets[s].pings)
            /\ sockets[s].pongs = SubSeq(sockets[s].pings, 1, Len(sockets[s].pongs))
            /\ sockets[s].state = "OPEN" => sockets[s].pongs = sockets[s].pings)

C23_Witness ==
    \E s \in 1..Len(sockets) :
        /\ s > 1
        /\ sockets[s].state = "OPEN"
        /\ sockets[s].pings = <<2, 1>>
        /\ sockets[s].pongs = <<2, 1>>

\* A delivery under an unknown capability name is handled.
UnknownStep ==
    /\ Len(cmds') = Len(cmds) + 1
    /\ cmds'[Len(cmds')].cap \notin Recognised

\* C24: the handler of a delivery under an unknown capability name sends one
\* failed result for it, and leaves the sessions, the processes and timers of
\* the other commands, the in-flight map and the files alone; such a command
\* never has another result, a session or a file access.
C24_UnknownCapabilityFails ==
    /\ [][UnknownStep =>
            /\ cmds'[Len(cmds')].results = <<"failed">>
            /\ cmds'[Len(cmds')].error = "unsupported"
            /\ SubSeq(cmds', 1, Len(cmds)) = cmds
            /\ UNCHANGED <<sessions, activeCommands, files>>]_vars
    /\ [](\A i \in 1..Len(cmds) :
            cmds[i].cap \notin Recognised =>
                /\ cmds[i].results = <<"failed">>
                /\ cmds[i].sid = 0
                /\ cmds[i].pc = "done"
                /\ cmds[i].touched = <<>>)

C24_Witness ==
    /\ Len(cmds) = 3
    /\ Alive(cmds[1])
    /\ cmds[2].cap = "bogus" /\ cmds[2].results = <<"failed">>
    /\ cmds[3].cap = "bogus" /\ cmds[3].id = cmds[1].id
    /\ activeCommands[cmds[1].id] = 1

\* C25: in brain mode every delivery is answered in its handler by one failed
\* result with the brain-mode text, and nothing is executed: no session, no
\* process, no in-flight entry, no file read or written.
C25_BrainModeRefuses ==
    brainMode =>
        /\ \A i \in 1..Len(cmds) :
              /\ cmds[i].results = <<"failed">>
              /\ cmds[i].error = "brain-mode"
              /\ cmds[i].pc = "done"
              /\ cmds[i].sid = 0
              /\ cmds[i].child = "none"
              /\ cmds[i].touched = <<>>
        /\ sessions = <<>>
        /\ \A id \in CmdIds : activeCommands[id] = 0
        /\ files = PlainFiles

C25_Witness ==
    /\ brainMode
    /\ Len(cmds) = 2
    /\ cmds[1].cap = "exec" /\ cmds[1].results = <<"failed">>
    /\ cmds[2].cap = "write" /\ cmds[2].error = "brain-mode"
    /\ Len(sockets) = 2

\* C26: the delay of the hard timeout timer of an exec is min(requested,
\* 3600) seconds, with 1800 for the requested timeout when none is given; it
\* is never more than 3600 seconds, and the timer exists only with that delay.
C26_EffectiveTimeout ==
    \A i \in 1..Len(cmds) :
        IsExec(i) =>
            LET given == cmds[i].timeoutReq[1]
                requested == IF given THEN cmds[i].timeoutReq[2] ELSE 1800
            IN  /\ cmds[i].timeoutMs = 1000 * (IF requested <= 3600 THEN requested ELSE 3600)
                /\ cmds[i].timeoutMs <= 3600 * 1000
                /\ ~given => cmds[i].timeoutMs = 1800 * 1000

C26_Witness ==
    \E i \in 1..Len(cmds) :
        /\ cmds[i].timeoutReq = <<TRUE, 2 * MaxTimeout>>
        /\ cmds[i].timeoutMs = MaxTimeout * 1000
        /\ cmds[i].timer = "fired"
        /\ "error" \in {cmds[i].outcomes[k] : k \in 1..Len(cmds[i].outcomes)}

\* C27: on every session record, markBackgrounded applied twice gives what it
\* gives applied once, markExited applied twice with the same code and signal
\* gives what it gives applied once, and of two markExited calls the code and
\* signal of the later one are recorded; a markExited on a session already
\* marked exited changes nothing but the code and the signal.
C27_Idempotent ==
    /\ [](\A s \in 1..Len(sessions) :
            LET x == sessions[s]
            IN  /\ MarkBackgrounded(MarkBackgrounded(x)) = MarkBackgrounded(x)
                /\ \A c1 \in ExitCodes, g1 \in ExitSignals :
                      /\ MarkExited(MarkExited(x, c1, g1), c1, g1) = MarkExited(x, c1, g1)
                      /\ \A c2 \in ExitCodes, g2 \in ExitSignals :
                            LET twice == MarkExited(MarkExited(x, c1, g1), c2, g2)
                            IN  /\ twice.exitCode = c2 /\ twice.exitSignal = g2
                                /\ twice = MarkExited(x, c2, g2))
    /\ [][\A s \in 1..Len(sessions) :
            (sessions[s].exited /\ sessions'[s].exitCode # sessions[s].exitCode) =>
                sessions'[s] = [sessions[s] EXCEPT !.exitCode = sessions'[s].exitCode,
                                                  !.exitSignal = sessions'[s].exitSignal]]_vars

C27_Witness ==
    \E i \in 1..Len(cmds) :
        /\ cmds[i].outcomes = <<"error", "done">>
        /\ Sess(i).exited
        /\ Sess(i).exitCode = "-2"
        /\ ~Sess(i).stdin

\* C28: the result onDone sends for a process exit carries, as stdout and as
\* stderr, every chunk the process emitted on that stream, in order and whole,
\* whatever the registry has dropped from its aggregated output; and once
\* onDone has run no further chunk of the process is delivered.
DoneStep(i) ==
    /\ i <= Len(cmds)
    /\ Len(cmds'[i].outcomes) = Len(cmds[i].outcomes) + 1
    /\ cmds'[i].outcomes[Len(cmds'[i].outcomes)] = "done"

C28_OutputFolded ==
    /\ [][\A i \in 1..Len(cmds') :
            (DoneStep(i) /\ Len(cmds'[i].results) > Len(cmds[i].results)) =>
                cmds'[i].folded[Len(cmds'[i].folded)] =
                    <<StreamText(cmds'[i].emitted, "stdout", 1),
                      StreamText(cmds'[i].emitted, "stderr", 1)>>]_vars
    /\ [][\A i \in 1..Len(cmds) :
            (\E k \in 1..Len(cmds[i].outcomes) : cmds[i].outcomes[k] = "done") =>
                /\ cmds'[i].emitted = cmds[i].emitted
                /\ cmds'[i].stdout = cmds[i].stdout
                /\ cmds'[i].stderr = cmds[i].stderr
                /\ sessions'[cmds[i].sid].written = sessions[cmds[i].sid].written]_vars

C28_Witness ==
    \E i \in 1..Len(cmds) :
        /\ cmds[i].outcomes = <<"done">>
        /\ cmds[i].results # <<>>
        /\ Len(cmds[i].emitted) = MaxChunks
        /\ \E k \in 1..MaxChunks : cmds[i].emitted[k][1] = "stderr"
        /\ StrLen(cmds[i].folded[Len(cmds[i].folded)][1]) > MaxOutputChars
        /\ StrLen(Sess(i).aggregated) = MaxOutputChars

\* C29: an edit of an existing file succeeds exactly when oldText occurs once
\* in the content, the content then being the old one with that occurrence
\* replaced by newText; with no occurrence or more than one, the edit fails
\* and the file system is as before.
EditStep ==
    /\ Len(cmds') = Len(cmds) + 1
    /\ cmds'[Len(cmds')].cap = "edit"
    /\ IsFile(files, cmds'[Len(cmds')].touched)

C29_EditExactlyOnce ==
    [][EditStep =>
        LET c == cmds'[Len(cmds')]
            content == files[c.touched].content
            oldText == c.file[2]
            newText == c.file[3]
            at == {i \in 0..(Len(content) - Len(oldText)) :
                      SubSeq(content, i + 1, i + Len(oldText)) = oldText}
        IN  /\ c.file[4] <=> Cardinality(at) = 1
            /\ c.file[4] =>
                  \E i \in at :
                     files' = [files EXCEPT ![c.touched].content =
                                  SubSeq(content, 1, i) \o newText
                                  \o SubSeq(content, i + Len(oldText) + 1, Len(content))]
            /\ ~c.file[4] => files' = files]_vars

\* C30: a read, write or edit whose path resolves outside the root fails
\* without a file system call; every file a file command makes the operating
\* system look at is the root or below it, and what lies outside the root
\* stays as it was.
C30_StaysInRoot ==
    /\ \A i \in 1..Len(cmds) :
          cmds[i].cap \in {"read", "write", "edit"} =>
              /\ (cmds[i].file[1] # NoPath /\ ~UnderRoot(Resolve(RootPath, cmds[i].file[1]))) =>
                    ~cmds[i].file[4] /\ cmds[i].touched = <<>>
              /\ cmds[i].touched # <<>> => UnderRoot(cmds[i].touched)
    /\ \A q \in DOMAIN files :
          ~UnderRoot(q) => q \in DOMAIN PlainFiles /\ files[q] = PlainFiles[q]

\* C31: the in-flight map points at a command only while that command is an
\* exec that has begun and has reported no terminal outcome: no entry points
\* at a command whose onDone or onError has run.
C31_InFlightOnlyWhileRunning ==
    \A i \in 1..Len(cmds) :
        activeCommands[cmds[i].id] = i => IsExec(i) /\ Terminal(cmds[i]) = {}

\* C32: a 'close' or 'error' event of a socket changes neither the in-flight
\* map nor any session record nor any command (its child process, its timers);
\* and a command delivered on an earlier socket whose terminal outcome comes
\* while the socket of a later connection is open has its result sent on that
\* socket.
C32_FlapKeepsCommands ==
    /\ [][(\E s \in 1..Len(sockets) : (CloseStep(s) \/ ErrorStep(s)) /\ ~StopStep) =>
            /\ activeCommands' = activeCommands
            /\ sessions' = sessions
            /\ cmds' = cmds]_vars
    /\ [][\A i \in 1..Len(cmds) :
            (/\ Terminal(cmds'[i]) # Terminal(cmds[i])
             /\ CanSend
             /\ cmds[i].sock # ws) =>
                /\ Len(cmds'[i].results) = Len(cmds[i].results) + 1
                /\ cmds'[i].results[Len(cmds'[i].results)] \in {"completed", "failed"}
                /\ cmds'[i].via[Len(cmds'[i].via)] = ws]_vars

C32_Witness ==
    \E i \in 1..Len(cmds) :
        /\ IsExec(i)
        /\ sockets[cmds[i].sock].state = "CLOSED"
        /\ TerminalSent(cmds[i])
        /\ cmds[i].via # <<>>
        /\ cmds[i].via[Len(cmds[i].via)] > cmds[i].sock
        /\ cmds[i].child = "closed"

\* C33: with no attempt ceiling, an agent that was started and not stopped
\* and has no socket always has a reconnect timer pending, and from there a
\* new connection attempt is eventually made: a socket is created, or the
\* constructor throws and the next attempt is scheduled.  (The attempt counter
\* and the number of sockets are followed up to AttemptCap and MaxSock.)
Disconnected == started > 0 /\ ~destroyed /\ ws = 0
AtBound == Len(sockets) >= MaxSock \/ attempt >= AttemptCap

C33_ReconnectEventually ==
    /\ [](Disconnected => reconnectTimer.state = "pending" \/ leakedTimers > 0)
    /\ \A a \in 0..(AttemptCap + 1) :
          [](Disconnected /\ attempt = a =>
                <>(ws # 0 \/ attempt > a \/ destroyed \/ AtBound))

C33_Witness ==
    /\ Len(sockets) >= 2
    /\ sockets[1].state = "CLOSED"
    /\ ws = 2
    /\ sockets[2].state = "OPEN"
    /\ ~destroyed

\* C34: when the hard timeout fires while the process runs, an error outcome
\* is reported (a 'failed' result if the socket is open) and the session is
\* marked exited with code 1 and signal SIGTERM; after the timeout has fired,
\* nothing changes the recorded exit code and signal, the later 'close' of the
\* process included.
C34_TimeoutRecorded ==
    /\ [][\A i \in 1..Len(cmds) :
            (TimeoutStep(i) /\ Alive(cmds[i])) =>
                /\ cmds'[i].outcomes = Append(cmds[i].outcomes, "error")
                /\ CanSend => cmds'[i].results = Append(cmds[i].results, "failed")
                /\ Sess(i)'.exited
                /\ Sess(i)'.exitCode = "1"
                /\ Sess(i)'.exitSignal = "SIGTERM"]_vars
    /\ [][\A i \in 1..Len(cmds) :
            cmds[i].timer = "fired" =>
                /\ Sess(i)'.exited
                /\ Sess(i)'.exitCode = Sess(i).exitCode
                /\ Sess(i)'.exitSignal = Sess(i).exitSignal]_vars

C34_Witness ==
    \E i \in 1..Len(cmds) :
        /\ cmds[i].timer = "fired"
        /\ cmds[i].child = "closed"
        /\ cmds[i].sigs = {"SIGTERM"}
        /\ cmds[i].outcomes = <<"error">>
        /\ cmds[i].results = <<"failed">>
        /\ Sess(i).exitCode = "1"
        /\ Sess(i).exitSignal = "SIGTERM"

Mutations(table, id) ==
    {RegistryMarkBackgroundedById(table, id),
     RegistryAppendOutputById(table, id, 1),
     RegistryKillById(table, id, TRUE),
     RegistryKillById(table, id, FALSE)}
    \cup {RegistryMarkExitedById(table, id, code, "SIGTERM") : code \in {"0", "1"}}

C36_KeyedUpdates ==
    /\ [](\A id \in Slugs : \A r \in Mutations(sessions, id) :
            /\ Len(r[1]) = Len(sessions)
            /\ \A s \in 1..Len(sessions) : sessions[s].id # id => r[1][s] = sessions[s]
            /\ (\A s \in 1..Len(sessions) : sessions[s].id # id) =>
                  r[1] = sessions /\ r[2] = FALSE)
    /\ [][Len(sessions') = Len(sessions) =>
            Cardinality({s \in 1..Len(sessions) : sessions'[s] # sessions[s]}) <= 1]_vars

C36_Witness ==
    /\ Len(sessions) = 2
    /\ sessions[1] = [NewSession EXCEPT !.id = sessions[1].id]
    /\ sessions[2].exited
    /\ sessions[2].backgrounded
    /\ sessions[2].written # <<>>
    /\ sessions[2].killTimers > 0
    /\ \E id \in Slugs : \A s \in 1..Len(sessions) : sessions[s].id # id

\* C37: a result is sent only in the step its outcome is produced, on #ws,
\* which is open at that moment; an outcome produced while no open socket is
\* at hand sends nothing, then or later; and the same for pongs: a pong is
\* sent only in the step its ping is handled, on the open #ws, and a ping
\* handled without one is never answered.
Grown(before, after) == Len(after) - Len(before)

C37_NoOutboundQueue ==
    /\ [][\A i \in 1..Len(cmds) :
            LET sent == Grown(cmds[i].results, cmds'[i].results)
                produced == Grown(cmds[i].outcomes, cmds'[i].outcomes)
            IN  /\ sent = (IF CanSend THEN produced ELSE 0)
                /\ sent > 0 => cmds'[i].via[Len(cmds'[i].via)] = ws]_vars
    /\ [][\A s \in 1..Len(sockets) :
            LET sent == Grown(sockets[s].pongs, sockets'[s].pongs)
                handled == \E r \in 1..Len(sockets) : PingStep(r)
            IN  /\ sent = (IF handled /\ CanSend /\ s = ws THEN 1 ELSE 0)
                /\ sent > 0 => sockets[s].state = "OPEN"]_vars
    /\ [](\A i \in 1..Len(cmds) :
            /\ Len(cmds[i].results) <= Len(cmds[i].outcomes)
            /\ Len(cmds[i].via) = Len(cmds[i].results))

C37_Witness ==
    /\ ws # 0
    /\ sockets[ws].state = "OPEN"
    /\ \E i \in 1..Len(cmds) : cmds[i].outcomes = <<"done">> /\ cmds[i].results = <<>>
    /\ \E s \in 1..Len(sockets) :
          s # ws /\ Len(sockets[s].pings) > Len(sockets[s].pongs)
    /\ sockets[ws].pongs # <<>>

\* C38: a session is marked exited only when its process has terminated or
\* could not be spawned: session.exited implies that the process of the
\* session's invocation is not running.
C38_ExitedMeansNotRunning ==
    \A i \in 1..Len(cmds) :
        IsExec(i) /\ cmds[i].sid # 0 /\ Sess(i).exited => ~Alive(cmds[i])

\* C39: with start() called once, at most one socket is connecting or open,
\* at most one reconnect timer is pending, and no reconnect timer is pending
\* while a socket is connecting or open.
LiveSockets == {s \in 1..Len(sockets) : sockets[s].state \in {"CONNECTING", "OPEN"}}

PendingReconnectTimers ==
    leakedTimers + (IF reconnectTimer.state = "pending" THEN 1 ELSE 0)

C39_OneSocketOneTimer ==
    started <= 1 =>
        /\ Cardinality(LiveSockets) <= 1
        /\ PendingReconnectTimers <= 1
        /\ LiveSockets # {} => PendingReconnectTimers = 0

C39_Witness ==
    /\ started = 1
    /\ ~destroyed
    /\ Len(sockets) >= 2
    /\ sockets[1].state = "CLOSED"
    /\ LiveSockets = {Len(sockets)}
    /\ sockets[Len(sockets)].state = "OPEN"

\* C40: a session is backgrounded exactly when a yield outcome has been
\* emitted for the invocation that owns it; the flag never goes back to
\* false; and a payload's background field does not set it: a command whose
\* payload sets background is backgrounded only by its yield.
Yielded(c) == \E k \in 1..Len(c.outcomes) : c.outcomes[k] = "yield"

C40_BackgroundedIffYielded ==
    /\ [](\A i \in 1..Len(cmds) :
            IsExec(i) /\ cmds[i].sid # 0 => (Sess(i).backgrounded <=> Yielded(cmds[i])))
    /\ [][\A t \in 1..Len(sessions) :
            sessions[t].backgrounded => sessions'[t].backgrounded]_vars
    /\ [][\A i \in 1..Len(cmds') :
            /\ IsExec(i)'
            /\ cmds'[i].sid # 0
            /\ sessions'[cmds'[i].sid].backgrounded
            /\ ~(i <= Len(cmds) /\ cmds[i].sid # 0 /\ Sess(i).backgrounded)
            => i <= Len(cmds) /\ YieldStep(i)]_vars

C40_Witness ==
    \E i \in 1..Len(cmds) :
        /\ cmds[i].background
        /\ cmds[i].yieldReq
        /\ Yielded(cmds[i])
        /\ Sess(i).backgrounded
        /\ Sess(i).exited

=============================================================================
